---- MODULE Spec2Model ----
(***************************************************************************)
(* Twinkly-Matrix-App: the DDP -> reassembly -> pacing -> overlay writer   *)
(* pipeline (TwinklyWall/ddp_bridge.py) and the playback supervisor        *)
(* (TwinklyWall/api_server.py, TwinklyWall/video_player.py).               *)
(*                                                                         *)
(* Time is counted in ticks of 100 microseconds; time.time() and           *)
(* time.perf_counter() are read from the one variable now.                 *)
(***************************************************************************)
EXTENDS Integers, Sequences, FiniteSets, TLC

\* ------------------------------------------------------------ bounds
\* Datagrams the environment may send from its repeatable source set.
MaxPackets == 3
\* Times the clock may advance by a tick step during a run.
MaxTicks == 1
MaxRequests == 3           \* requests served, and playback threads started
PaceHorizon == 12          \* ticks the clock may advance in the pacing runs
MaxCalls == 2              \* registry calls made by one thread
MaxClock == 5              \* quarter seconds of time.monotonic() followed
HARD_DROP_COOLDOWN == 3    \* Players.HARD_DROP_COOLDOWN_SEC = 0.75, in quarter seconds
MaxErrors == 2             \* socket errors in one iteration beyond the batch limit
MaxStream == 52            \* datagrams of a stream: more than the queue holds

\* --------------------------------------------------- program constants
OneSecond == 10000         \* 1.0 s in ticks (sec_elapsed >= 1.0)
PacingSlack == 5           \* 0.0005 s in ticks
IdleSleep == 1             \* 0.0001 s in ticks
RecvBufSize == 1500        \* recvfrom(1500)
HeaderLen == 10
DdpMagic == 65             \* 0x41
max_active_frames == 12
CompletedMaxLen == 50      \* deque(maxlen=50)

VARIABLES
    cfg,                \* constructor arguments: width, height, max_fps, ...
    now,                \* the clock, in ticks
    pc,                 \* position of DdpBridge.run in its main loop
    packets_this_loop,
    wrote,
    frames_map,         \* insertion-ordered dict (sender, seq) -> FrameState
    completed_frames,   \* deque(maxlen=50) of FrameState
    frames_written,
    frames_dropped,
    sec,                \* _sec_frames_in, _sec_frames_out, _sec_dropped, ...
    tot,                \* _tot_frames_in, _tot_frames_out, _tot_dropped, ...
    sec_start,
    run_start,
    last_write_ts,
    out,                \* the frame last handed to FPPOutput.write that returned
    net,                \* datagrams in flight, each delivered at most once
    source,             \* datagrams a sender may (re)send at any time
    budget,             \* sends left from source
    next_id,            \* identity of the next FrameState object
    enq_log,            \* every FrameState appended to completed_frames, in order
    sent,               \* the frame a sender transmits (SpecFrame), else <<>>
    stream,             \* datagrams waiting in the socket's buffer, oldest first
    attempts,           \* calls of recvfrom in this iteration, and how many raised
                        \* an error other than BlockingIOError
    playback_active,    \* api_server globals
    current_player,     \* 0 for None, else the thread whose VideoPlayer it is
    playback_thread,    \* 0 for None, else a playback thread
    requests,           \* the Flask request threads, each serving one request
    players,            \* the playback threads, each with its VideoPlayer
    fpp,                \* FPPOutput: constructor arguments, mapping, memory_map
    routing_table,      \* FPPOutput.routing_table, (row, col) -> byte index
    fast_dest,          \* FPPOutput._fast_dest, <<>> for None
    fast_src,           \* FPPOutput._fast_src, <<>> for None
    buffer,             \* FPPOutput.buffer, width * height * 3 bytes
    call,               \* the last call of FPPOutput.write or write_solid
    fpp_pc,             \* position of FPPOutput.__init__, "ready" once it returned
    shm,                \* the shared-memory file: its size (-1: no file), the
                        \* length of memory_map (0 for None)
    overlay,            \* _enable_overlay_state: attempt, events so far, result
    registry,           \* the shared Players registry: its lock, its players,
                        \* and each thread's position in its call
    proc,               \* the bridge process: running or ended, its exit code,
                        \* the totals its final summary printed
    vp                  \* one call of VideoPlayer.play: arguments and locals

env_vars == <<net, source, budget, sent, stream>>

api_vars == <<playback_active, current_player, playback_thread, requests, players,
              registry>>

fpp_vars == <<fpp, routing_table, fast_dest, fast_src, buffer, call, fpp_pc, shm,
              overlay>>

bridge_vars == <<cfg, now, pc, packets_this_loop, wrote, frames_map,
                 completed_frames, frames_written, frames_dropped, sec, tot,
                 sec_start, run_start, last_write_ts, out, net, source, budget,
                 sent, stream, attempts, next_id, enq_log>>

Min(a, b) == IF a < b THEN a ELSE b
Max(a, b) == IF a > b THEN a ELSE b

\* ------------------------------------------------------------ DDP wire
\* A DDP v1 datagram as the sender lays it out: 10 header bytes, then body.
DdpPacket(flags, seq, off, ln, body) ==
    << DdpMagic, flags, seq,
       (off \div 65536) % 256, (off \div 256) % 256, off % 256,
       (ln \div 256) % 256, ln % 256, 0, 0 >> \o body

\* sock.recvfrom(1500): a longer datagram is cut to the buffer size.
recvfrom(dgram) == SubSeq(dgram, 1, Min(Len(dgram), RecvBufSize))

\* Python slice data[a:b] of a 0-based sequence (0 <= a <= b).
Slice(data, a, b) == SubSeq(data, a + 1, Min(b, Len(data)))

hdr_flags(data) == data[2]
hdr_seq(data) == data[3]
hdr_off(data) == data[4] * 65536 + data[5] * 256 + data[6]
hdr_ln(data) == data[7] * 256 + data[8]
hdr_payload(data) == Slice(data, HeaderLen, HeaderLen + hdr_ln(data))

\* The datagram passes the parse checks of the receive loop.
ParseOk(data) ==
    /\ Len(data) > 0
    /\ data[1] = DdpMagic
    /\ Len(data) >= HeaderLen
    /\ Len(hdr_payload(data)) = hdr_ln(data)

\* ---------------------------------------------------------- FrameState
frame_size == cfg.width * cfg.height * 3

FrameState(sender, seq, id) ==
    [ buf |-> [i \in 1..frame_size |-> 0],
      received |-> [i \in 1..frame_size |-> 0],
      missing |-> frame_size,
      chunks |-> 0,
      sender |-> sender,
      seq |-> seq,
      saw_eof |-> FALSE,
      start_ts |-> now,
      id |-> id ]

\* segment = mv_recv[off:end]; newly_covered = len(segment) - sum(segment).
\* The coverage bytes are 0 or 1, so their sum is the number of ones.
SumBytes(segment) == Cardinality({i \in 1..Len(segment) : segment[i] = 1})

\* newly_covered = len(segment) - sum(segment), with too_many_counted below
\* as the variant that counts every byte of the chunk as new.
too_many_counted(fr, off, payload) == Len(payload)

newly_covered(fr, off, payload) ==
    LET segment == Slice(fr.received, off, off + Len(payload))
    IN Len(segment) - SumBytes(segment)

\* The variant that copies every payload to the start of the buffer.
add_chunk_at_zero(fr, off, payload) ==
    [fr EXCEPT
       !.buf = [i \in 1..Len(fr.buf) |->
                  IF i <= Len(payload) THEN payload[i] ELSE fr.buf[i]],
       !.received = [i \in 1..Len(fr.received) |->
                  IF off < i /\ i <= off + Len(payload) THEN 1 ELSE fr.received[i]],
       !.missing = fr.missing - newly_covered(fr, off, payload),
       !.chunks = fr.chunks + 1]

add_chunk(fr, off, payload) ==
    LET end == off + Len(payload) IN
    [fr EXCEPT
       !.buf = [i \in 1..Len(fr.buf) |->
                  IF off < i /\ i <= end THEN payload[i - off] ELSE fr.buf[i]],
       !.received = [i \in 1..Len(fr.received) |->
                  IF off < i /\ i <= end THEN 1 ELSE fr.received[i]],
       !.missing = fr.missing - newly_covered(fr, off, payload),
       !.chunks = fr.chunks + 1]

push_only(fr) == fr.saw_eof

complete(fr) == fr.missing = 0 /\ fr.saw_eof

\* ------------------------------------------------------- frame table
KeyIndex(map, sender, seq) ==
    {i \in 1..Len(map) : map[i].sender = sender /\ map[i].seq = seq}

RemoveAt(s, i) == SubSeq(s, 1, i - 1) \o SubSeq(s, i + 1, Len(s))

\* The variant that drops the entry inserted last.
youngest_index(map) == Len(map)

\* min(self.frames_map.items(), key=start_ts): the first entry, in insertion
\* order, with the least start_ts.
OldestIndex(map) ==
    CHOOSE i \in 1..Len(map) :
        /\ \A j \in 1..Len(map) : map[i].start_ts <= map[j].start_ts
        /\ \A j \in 1..(i - 1) : map[j].start_ts > map[i].start_ts

\* deque(maxlen=50).append: a full deque discards its leftmost entry.
DequeAppend(q, x) ==
    IF Len(q) >= CompletedMaxLen THEN Tail(q) \o <<x>> ELSE Append(q, x)

ZeroCounters ==
    [frames_in |-> 0, frames_out |-> 0, dropped |-> 0, incomplete |-> 0,
     packets |-> 0]

AddCounters(a, b) ==
    [frames_in |-> a.frames_in + b.frames_in,
     frames_out |-> a.frames_out + b.frames_out,
     dropped |-> a.dropped + b.dropped,
     incomplete |-> a.incomplete + b.incomplete,
     packets |-> a.packets + b.packets]

\* ------------------------------------------------------- receive loop
\* packets_this_loop = 0 at the head of the outer loop: no call yet.
NoAttempts == [total |-> 0, failed |-> 0]

one_byte_late(end) == end > frame_size + 1

\* Bounds check of the receive loop: the chunk would run past the frame.
Overflow(end) == end > frame_size

\* An unknown key arrives while the table is at its cap.
\* The variant that evicts one frame too late.
table_overfull(map) == Len(map) > max_active_frames

TableFull(map) == Len(map) >= max_active_frames

keep_key(map, k) == map

\* self.frames_map.pop(key, None)
PopKey(map, k) == RemoveAt(map, k)

end_of_frame(flags) == flags % 2 = 1

\* The per-second statistics block that runs when a frame completes and at
\* least one second has passed since _sec_start.
RollOver == now - sec_start >= OneSecond

\* The body of the inner while loop once recvfrom has returned a datagram.
Receive(sender, dgram) ==
    LET data == recvfrom(dgram)
        sec1 == [sec EXCEPT !.packets = @ + 1]
    IN
    /\ pc = "recv"
    /\ packets_this_loop < cfg.batch_limit
    /\ packets_this_loop' = packets_this_loop + 1
    /\ attempts' = [attempts EXCEPT !.total = @ + 1]
    /\ IF ~ParseOk(data)
       THEN /\ sec' = sec1
            /\ UNCHANGED <<frames_map, completed_frames, tot, sec_start,
                           next_id, enq_log>>
       ELSE
         LET flags == hdr_flags(data)
             seq == hdr_seq(data)
             off == hdr_off(data)
             ln == hdr_ln(data)
             payload == hdr_payload(data)
             present == KeyIndex(frames_map, sender, seq) # {}
             evict == ~present /\ TableFull(frames_map)
             map0 == IF evict
                     THEN RemoveAt(frames_map, OldestIndex(frames_map))
                     ELSE frames_map
             map1 == IF present
                     THEN frames_map
                     ELSE Append(map0, FrameState(sender, seq, next_id))
             sec2 == IF evict THEN [sec1 EXCEPT !.incomplete = @ + 1] ELSE sec1
             k == CHOOSE i \in KeyIndex(map1, sender, seq) : TRUE
             frame == map1[k]
             end == off + ln
         IN
         /\ next_id' = IF present THEN next_id ELSE next_id + 1
         /\ IF Overflow(end)
            THEN /\ frames_map' = map1
                 /\ sec' = sec2
                 /\ UNCHANGED <<completed_frames, tot, sec_start, enq_log>>
            ELSE
              LET fr1 == add_chunk(frame, off, payload)
                  fr2 == IF end_of_frame(flags)
                         THEN [fr1 EXCEPT !.saw_eof = TRUE] ELSE fr1
                  sec3 == [sec2 EXCEPT !.frames_in = @ + 1]
              IN
              IF complete(fr2)
              THEN /\ completed_frames' = DequeAppend(completed_frames, fr2)
                   /\ frames_map' = PopKey(map1, k)
                   /\ enq_log' = Append(enq_log, fr2)
                   /\ IF RollOver
                      THEN /\ tot' = AddCounters(tot, sec3)
                           /\ sec' = ZeroCounters
                           /\ sec_start' = now
                      ELSE /\ sec' = sec3
                           /\ UNCHANGED <<tot, sec_start>>
              ELSE /\ frames_map' = [map1 EXCEPT ![k] = fr2]
                   /\ sec' = sec2
                   /\ UNCHANGED <<completed_frames, tot, sec_start, enq_log>>
    /\ UNCHANGED <<cfg, now, pc, wrote, frames_written, frames_dropped,
                   run_start, last_write_ts, out>>

\* A datagram in flight arrives.
RecvNet ==
    \E d \in net :
        /\ Receive(d.sender, d.data)
        /\ net' = net \ {d}
        /\ UNCHANGED <<source, budget, sent, stream, api_vars, fpp_vars, proc, vp>>

\* A sender transmits one of its datagrams (again).
RecvSrc ==
    \E d \in source :
        /\ budget > 0
        /\ Receive(d.sender, d.data)
        /\ budget' = budget - 1
        /\ UNCHANGED <<net, source, sent, stream, api_vars, fpp_vars, proc, vp>>

\* recvfrom returns the oldest datagram of the socket's buffer.
RecvStream ==
    /\ stream # <<>>
    /\ Receive(Head(stream).sender, Head(stream).data)
    /\ stream' = Tail(stream)
    /\ UNCHANGED <<net, source, budget, sent, api_vars, fpp_vars, proc, vp>>

\* recvfrom raises another exception than BlockingIOError (OSError): the loop
\* logs "Socket error" and continues with the next call; packets_this_loop is
\* added to only after recvfrom has returned.
RecvError ==
    /\ pc = "recv"
    /\ packets_this_loop < cfg.batch_limit
    /\ attempts.total < cfg.batch_limit + MaxErrors
    /\ attempts' = [total |-> attempts.total + 1, failed |-> attempts.failed + 1]
    /\ UNCHANGED <<cfg, now, pc, packets_this_loop, wrote, frames_map,
                   completed_frames, frames_written, frames_dropped, sec, tot,
                   sec_start, run_start, last_write_ts, out, env_vars, api_vars,
                   fpp_vars, proc, vp, next_id, enq_log>>

\* recvfrom raises BlockingIOError, which it does when the socket's buffer
\* holds no datagram: break.
RecvWouldBlock ==
    /\ pc = "recv"
    /\ stream = <<>>
    /\ packets_this_loop < cfg.batch_limit
    /\ pc' = "expire"
    /\ attempts' = [attempts EXCEPT !.total = @ + 1]
    /\ UNCHANGED <<cfg, now, packets_this_loop, wrote, frames_map,
                   completed_frames, frames_written, frames_dropped, sec, tot,
                   sec_start, run_start, last_write_ts, out, env_vars, api_vars, fpp_vars, proc, vp,
                   next_id, enq_log>>

\* The while condition packets_this_loop < batch_limit fails.
BatchFull ==
    /\ pc = "recv"
    /\ packets_this_loop >= cfg.batch_limit
    /\ pc' = "expire"
    /\ UNCHANGED <<cfg, now, packets_this_loop, wrote, frames_map,
                   completed_frames, frames_written, frames_dropped, sec, tot,
                   sec_start, run_start, last_write_ts, out, env_vars, attempts, api_vars, fpp_vars, proc, vp,
                   next_id, enq_log>>

\* ------------------------------------------------------- expiry scan
\* The variant that also removes a frame whose age is the timeout exactly.
expired_at_timeout(fr) == (now - fr.start_ts) * 1000 >= cfg.frame_timeout_ms * OneSecond

Expired(fr) == (now - fr.start_ts) * 1000 > cfg.frame_timeout_ms * OneSecond

KeepLive(map) == SelectSeq(map, LAMBDA fr : ~Expired(fr))

ExpireScan ==
    /\ pc = "expire"
    /\ frames_map' = KeepLive(frames_map)
    /\ sec' = [sec EXCEPT !.incomplete = @ + Len(frames_map) - Len(KeepLive(frames_map))]
    /\ pc' = "pace"
    /\ UNCHANGED <<cfg, now, packets_this_loop, wrote, completed_frames,
                   frames_written, frames_dropped, tot, sec_start, run_start,
                   last_write_ts, out, env_vars, attempts, api_vars, fpp_vars, proc, vp,
                   next_id, enq_log>>

\* ------------------------------------------------------------ pacing
\* The variant that paces at twice the configured rate.
half_interval == OneSecond \div (2 * cfg.max_fps)

min_interval == OneSecond \div cfg.max_fps

Pace ==
    /\ pc = "pace"
    /\ wrote' = FALSE
    /\ IF cfg.max_fps > 0
       THEN LET lw == IF last_write_ts = 0 THEN now - min_interval ELSE last_write_ts
                since_last == now - lw
                remaining == min_interval - since_last
            IN /\ last_write_ts' = lw
               /\ now' = IF since_last < min_interval /\ remaining > PacingSlack
                         THEN now + remaining ELSE now
       ELSE UNCHANGED <<last_write_ts, now>>
    /\ pc' = "write"
    /\ UNCHANGED <<cfg, packets_this_loop, frames_map, completed_frames,
                   frames_written, frames_dropped, sec, tot, sec_start,
                   run_start, out, env_vars, attempts, api_vars, fpp_vars, proc, vp,
                   next_id, enq_log>>

\* ------------------------------------------------------------ writer
\* The variant that takes the frame at the other end of the queue.
Oldest(q) == q[1]

\* latest = self.completed_frames.pop()
Latest(q) == q[Len(q)]

\* len(self.completed_frames) after the pop: the older queued frames.
OlderCount(q) == Len(q) - 1

\* The writer step; ok says whether the conversion and self.out.write
\* returned (TRUE) or raised (FALSE, caught and logged as [WRITE ERROR]).
WriteStep(ok) ==
    /\ pc = "write"
    /\ IF completed_frames # <<>>
       THEN LET latest == Latest(completed_frames)
                older == OlderCount(completed_frames)
            IN /\ completed_frames' = <<>>
               /\ frames_dropped' = frames_dropped + older
               /\ IF ok
                  THEN /\ out' = latest.buf
                       /\ frames_written' = frames_written + 1
                       /\ sec' = [sec EXCEPT !.dropped = @ + older,
                                             !.frames_out = @ + 1]
                       /\ last_write_ts' = now
                       /\ wrote' = TRUE
                  ELSE /\ sec' = [sec EXCEPT !.dropped = @ + older]
                       /\ UNCHANGED <<out, frames_written, last_write_ts, wrote>>
       ELSE /\ ok
            /\ UNCHANGED <<completed_frames, frames_dropped, out,
                           frames_written, sec, last_write_ts, wrote>>
    /\ pc' = "end"
    /\ UNCHANGED <<cfg, now, packets_this_loop, frames_map, tot, sec_start,
                   run_start, env_vars, attempts, api_vars, fpp_vars, proc, vp,
                   next_id, enq_log>>

WriteOk == WriteStep(TRUE)
WriteRaises == completed_frames # <<>> /\ WriteStep(FALSE)

\* ------------------------------------------------------ end of loop
\* Idle sleep, duration check, and back to the head of the loop.  A sleep
\* returns after at least the time asked for; how much later is the
\* scheduler's choice, drawn from the tick steps.
\* The check without "self.duration_sec and".
elapsed_only(t) == t - run_start >= cfg.duration_sec * OneSecond

\* if self.duration_sec and (time.time() - run_start) >= self.duration_sec
DurationReached(t) ==
    cfg.duration_sec > 0 /\ t - run_start >= cfg.duration_sec * OneSecond

EndIter ==
    /\ pc = "end"
    /\ \E d \in cfg.tick_steps :
         LET t == IF packets_this_loop = 0 /\ ~wrote THEN now + Max(IdleSleep, d) ELSE now
         IN /\ t <= cfg.horizon
            /\ now' = t
            /\ IF DurationReached(t)
               THEN pc' = "done"
               ELSE pc' = "recv"
    /\ packets_this_loop' = 0
    /\ attempts' = NoAttempts
    /\ UNCHANGED <<cfg, wrote, frames_map, completed_frames, frames_written,
                   frames_dropped, sec, tot, sec_start, run_start,
                   last_write_ts, out, env_vars, api_vars, fpp_vars, proc, vp,
                   next_id, enq_log>>

\* Time passes between two statements of the loop.
Tick ==
    /\ pc = "recv"
    /\ \E d \in cfg.tick_steps :
          /\ now + d <= cfg.horizon
          /\ now' = now + d
    /\ UNCHANGED <<cfg, pc, packets_this_loop, wrote, frames_map,
                   completed_frames, frames_written, frames_dropped, sec, tot,
                   sec_start, run_start, last_write_ts, out, env_vars, attempts, api_vars, fpp_vars, proc, vp,
                   next_id, enq_log>>

\* ------------------------------------------------------- environment
Fill(n, v) == [i \in 1..n |-> v]

Dgram(sender, data) == [sender |-> sender, data |-> data]

\* A well-formed chunk whose payload bytes all have the value v.
Chunk(sender, seq, off, ln, flags, v) ==
    Dgram(sender, DdpPacket(flags, seq, off, ln, Fill(ln, v)))

\* Datagrams the parse checks are there for: bad magic, shorter than the
\* header, fewer and more bytes than the header declares.
Malformed(sender, seq) ==
    { Dgram(sender, <<66>> \o Tail(DdpPacket(1, seq, 0, 3, Fill(3, 1)))),
      Dgram(sender, <<DdpMagic, 1, seq>>),
      Dgram(sender, DdpPacket(1, seq, 0, 3, Fill(2, 1))),
      Dgram(sender, DdpPacket(1, seq, 0, 3, Fill(4, 1))) }

\* Chunk geometries <<offset, length>> for a 3-byte frame: whole, head,
\* tail, overlapping both, and one that runs one byte past the end.
Geometries == { <<0, 3>>, <<0, 2>>, <<2, 1>>, <<1, 2>>, <<1, 3>> }

\* Sender 1 sends chunks of a frame of ones, with and without PUSH, and a
\* head chunk of other content; sender 2 sends a whole frame of twos.
Traffic ==
    { Chunk(1, 7, g[1], g[2], fl, 1) : g \in Geometries, fl \in {0, 1} }
    \cup { Chunk(1, 7, 0, 2, 0, 2), Chunk(2, 7, 0, 3, 1, 2) }
    \cup Malformed(1, 7)

TimeoutStep == 11          \* a step longer than the 1 ms frame timeout

Configs ==
    [ width : {1}, height : {1}, max_fps : {0}, frame_timeout_ms : {1},
      batch_limit : {2}, duration_sec : {0}, tick_steps : {{TimeoutStep}},
      horizon : {OneSecond + MaxTicks * TimeoutStep} ]

InitBridge(c) ==
    /\ cfg = c
    /\ now = OneSecond
    /\ pc = "recv"
    /\ packets_this_loop = 0
    /\ wrote = FALSE
    /\ frames_map = <<>>
    /\ completed_frames = <<>>
    /\ frames_written = 0
    /\ frames_dropped = 0
    /\ sec = ZeroCounters
    /\ tot = ZeroCounters
    /\ sec_start = OneSecond
    /\ run_start = OneSecond
    /\ last_write_ts = 0
    /\ out = <<>>
    /\ attempts = NoAttempts
    /\ next_id = 1
    /\ enq_log = <<>>
    /\ proc = [status |-> "running", code |-> 0, summary |-> <<>>, signal |-> "none"]

\* players.py: the registry as Players.__init__ leaves it. The lock is a
\* threading.Lock, which a thread that holds it cannot take again; 0 is
\* released, otherwise the thread that holds it. Each thread is outside any
\* call; stack is the chain of registry methods the thread is inside.
Threads == {1, 2}          \* 1: the network thread, 2: the game thread

PlayerIds == {"p1", "p2"}

Idle == [pc |-> "idle", stack |-> <<>>, player_id |-> "", arg |-> "", ret |-> "",
         calls |-> 0]

Players__init__ ==
    [_players |-> <<>>, _lock |-> 0, _last_hard_drop |-> <<>>,
     input_received |-> FALSE, clock |-> HARD_DROP_COOLDOWN,
     thr |-> [t \in Threads |-> Idle]]

_registry == Players__init__

\* The bridge runs as a program of its own: no API server beside it.
NoApi ==
    /\ vp = [pc |-> "idle"]
    /\ playback_active = FALSE
    /\ current_player = 0
    /\ playback_thread = 0
    /\ requests = <<>>
    /\ players = <<>>
    /\ registry = _registry

\* The writer's colour correction and routing are modelled on their own
\* (SpecFpp); for the bridge and the API the writer is the variable out.
NoFpp ==
    /\ fpp = [width |-> 0, height |-> 0]
    /\ routing_table = <<>>
    /\ fast_dest = <<>>
    /\ fast_src = <<>>
    /\ buffer = <<>>
    /\ call = [kind |-> "none"]
    /\ fpp_pc = "none"
    /\ shm = [file |-> -1, map |-> 0]
    /\ overlay = [attempt |-> 0, log |-> <<>>, sent |-> <<>>, result |-> "none"]

Init ==
    /\ \E c \in Configs : InitBridge(c)
    /\ NoApi
    /\ NoFpp
    /\ net = {}
    /\ source = Traffic
    /\ budget = MaxPackets
    /\ sent = <<>>
    /\ stream = <<>>

Loop ==
    \/ RecvWouldBlock
    \/ BatchFull
    \/ ExpireScan
    \/ Pace
    \/ WriteOk
    \/ WriteRaises
    \/ EndIter
    \/ Tick

Next == RecvSrc \/ Loop

vars == <<bridge_vars, api_vars, fpp_vars, proc, vp>>

Spec == Init /\ [][Next]_vars

\* ---------------------------------------------- one frame, any chunking
\* The chunks of frame F cut at the offsets of cuts (a subset of
\* 1..Len(F)-1), the chunks that start at an offset of pushes carrying PUSH.
Starts(F, cuts) == {0} \cup cuts

NextCut(F, cuts, a) ==
    IF \E c \in cuts : c > a
    THEN CHOOSE c \in cuts : c > a /\ \A e \in cuts : e > a => c <= e
    ELSE Len(F)

FrameChunks(sender, seq, F, cuts, pushes) ==
    { Dgram(sender,
            DdpPacket(IF a \in pushes THEN 1 ELSE 0, seq, a,
                      NextCut(F, cuts, a) - a,
                      SubSeq(F, a + 1, NextCut(F, cuts, a)))) :
      a \in Starts(F, cuts) }

LongestChunk(F, cuts) ==
    CHOOSE n \in 1..Len(F) :
        /\ \E a \in Starts(F, cuts) : n = NextCut(F, cuts, a) - a
        /\ \A a \in Starts(F, cuts) : NextCut(F, cuts, a) - a <= n

BigWidth == 497            \* a 497 x 1 wall: frame_size 1491

\* A small wall whose frame can be cut anywhere, and a wall whose frame is
\* one byte longer than fits a datagram of the receive buffer's size.
FrameConfigs ==
    [ width : {1, BigWidth}, height : {1}, max_fps : {0}, frame_timeout_ms : {1},
      batch_limit : {2}, duration_sec : {0}, tick_steps : {{TimeoutStep}},
      horizon : {OneSecond + MaxTicks * TimeoutStep} ]

ByteVals == {1, 2}          \* byte values of the small frames

FramesOf(c) ==
    IF c.width = 1
    THEN [1..3 -> ByteVals]
    ELSE { [i \in 1..(3 * c.width) |-> 1 + (i % 2)] }

CutsOf(c) ==
    IF c.width = 1
    THEN SUBSET {1, 2}
    ELSE { {}, {RecvBufSize - HeaderLen}, {1} }

InitFrame ==
    /\ \E c \in FrameConfigs : InitBridge(c)
    /\ NoApi
    /\ NoFpp
    /\ \E F \in FramesOf(cfg) : \E cuts \in CutsOf(cfg) :
         \E pushes \in SUBSET Starts(F, cuts) : \E stray \in BOOLEAN :
          /\ pushes # {}
          /\ net = FrameChunks(1, 7, F, cuts, pushes)
                     \cup (IF stray THEN {Dgram(1, DdpPacket(0, 7, 0, 0, <<>>))} ELSE {})
          /\ sent = [frame |-> F, longest |-> LongestChunk(F, cuts)]
    /\ source = {}
    /\ budget = 0
    /\ stream = <<>>

NextFrame == RecvNet \/ Loop

SpecFrame == InitFrame /\ [][NextFrame]_vars

\* ------------------------------------------- a stream of frames in order
\* Datagram s of a burst of the given shape.  Frame s is three bytes of
\* value s; a head is the frame without its last byte and without PUSH; in
\* "senders" every datagram is the head of frame 1 of another sender; the
\* mixed burst alternates heads from sender 2, chunks from sender 1 that run
\* one byte past the end of the frame, datagrams with a bad magic byte,
\* datagrams shorter than the header, datagrams with fewer and with more
\* payload bytes than they declare, and whole frames.
Shaped(shape, s) ==
    CASE shape = "whole" -> Chunk(1, s, 0, 3, 1, s)
      [] shape = "head1" -> IF s = 1 THEN Chunk(1, s, 0, 2, 0, s)
                                     ELSE Chunk(1, s, 0, 3, 1, s)
      [] shape = "heads" -> Chunk(1, s, 0, 2, 0, s)
      [] shape = "senders" -> Chunk(s, 1, 0, 2, 0, s)
      [] shape = "mixed" ->
           CASE s % 7 = 0 -> Chunk(2, s, 0, 2, 0, s)
             [] s % 7 = 1 -> Chunk(1, s, 1, 3, 0, s)
             [] s % 7 = 2 -> Dgram(1, <<66>> \o Tail(DdpPacket(1, s, 0, 3, Fill(3, s))))
             [] s % 7 = 3 -> Dgram(1, <<DdpMagic, 1, s>>)
             [] s % 7 = 4 -> Dgram(1, DdpPacket(1, s, 0, 3, Fill(2, s)))
             [] s % 7 = 5 -> Dgram(1, DdpPacket(1, s, 0, 3, Fill(4, s)))
             [] s % 7 = 6 -> Chunk(1, s, 0, 3, 1, s)

Shapes == {"whole", "head1", "heads", "senders", "mixed"}

\* A sender's burst of n datagrams, waiting in the socket's buffer.
StreamOf(n, shape) == [ s \in 1..n |-> Shaped(shape, s) ]

\* The clock steps by the frame timeout exactly or by one tick more; or,
\* in runs that see the per-second statistics roll over, by a second.
StreamConfigs ==
    [ width : {1}, height : {1}, max_fps : {0}, frame_timeout_ms : {1},
      batch_limit : {2, 200}, duration_sec : {0}, tick_steps : {{TimeoutStep - 1, TimeoutStep}},
      horizon : {OneSecond + MaxTicks * TimeoutStep} ]
    \cup
    [ width : {1}, height : {1}, max_fps : {0}, frame_timeout_ms : {1},
      batch_limit : {200}, duration_sec : {0}, tick_steps : {{OneSecond}},
      horizon : {2 * OneSecond} ]

InitStream ==
    /\ \E c \in StreamConfigs : InitBridge(c)
    /\ NoApi
    /\ NoFpp
    /\ \E n \in {1, 3, max_active_frames + 2, MaxStream} :
         \E shape \in Shapes :
            /\ stream = StreamOf(n, shape)
            /\ cfg.batch_limit < n => n = 3   \* long bursts: the default limit
    /\ net = {}
    /\ source = {}
    /\ budget = 0
    /\ sent = <<>>

NextStream == RecvStream \/ Loop

SpecStream == InitStream /\ [][NextStream]_vars

\* ------------------------------------------------------- paced writes
\* Three whole frames wait in the socket and are read one per iteration;
\* the bridge paces at 1000 fps (an interval of 10 ticks, twice the 500
\* microseconds of slack) or not at all, and the clock steps by 2 or 3
\* ticks.
PaceConfigs ==
    [ width : {1}, height : {1}, max_fps : {0, 1000}, frame_timeout_ms : {1},
      batch_limit : {1}, duration_sec : {0}, tick_steps : {{2, 3}},
      horizon : {OneSecond + PaceHorizon} ]

InitPace ==
    /\ \E c \in PaceConfigs : InitBridge(c)
    /\ NoApi
    /\ NoFpp
    /\ stream = StreamOf(3, "whole")
    /\ net = {}
    /\ source = {}
    /\ budget = 0
    /\ sent = <<>>

NextPace == RecvStream \/ Loop

SpecPace == InitPace /\ [][NextPace]_vars

\* ------------------------------------------------ the end of the run
\* After the loop: the final summary prints the lifetime totals.
final_summary ==
    /\ pc = "done"
    /\ proc' = [proc EXCEPT !.summary = <<tot>>]
    /\ pc' = "summarised"
    /\ UNCHANGED <<cfg, now, packets_this_loop, wrote, frames_map,
                   completed_frames, frames_written, frames_dropped, sec, tot,
                   sec_start, run_start, last_write_ts, out, env_vars, attempts, api_vars,
                   fpp_vars, vp, next_id, enq_log>>

\* bridge.run() returns to main, main returns: exit code 0
main_returns ==
    /\ pc = "summarised"
    /\ proc' = [proc EXCEPT !.status = "exited", !.code = 0]
    /\ pc' = "exit"
    /\ UNCHANGED <<cfg, now, packets_this_loop, wrote, frames_map,
                   completed_frames, frames_written, frames_dropped, sec, tot,
                   sec_start, run_start, last_write_ts, out, env_vars, attempts, api_vars,
                   fpp_vars, vp, next_id, enq_log>>

\* SIGINT: no handler is installed, so Python raises KeyboardInterrupt at the
\* statement the main thread is at; run has no handler for it (the writer's
\* "except Exception" does not catch it), main prints "Exiting." and calls
\* sys.exit(0).  Inside the writer, the frame being written has been taken
\* from the queue and is lost.
KeyboardInterrupt ==
    /\ pc \in {"recv", "expire", "pace", "write", "end", "done", "summarised"}
    /\ proc' = [proc EXCEPT !.status = "exited", !.code = 0, !.signal = "SIGINT"]
    /\ pc' = "exit"
    /\ \/ UNCHANGED <<completed_frames, frames_dropped, sec>>
       \/ /\ pc = "write"
          /\ completed_frames # <<>>
          /\ completed_frames' = <<>>
          /\ frames_dropped' = frames_dropped + OlderCount(completed_frames)
          /\ sec' = [sec EXCEPT !.dropped = @ + OlderCount(completed_frames)]
    /\ UNCHANGED <<cfg, now, packets_this_loop, wrote, frames_map,
                   frames_written, tot, sec_start, run_start, last_write_ts, out,
                   env_vars, attempts, api_vars, fpp_vars, vp, next_id, enq_log>>

\* SIGTERM: no handler is installed, the default action ends the process at
\* once (exit status 128 + 15).
SIGTERM ==
    /\ pc \in {"recv", "expire", "pace", "write", "end", "done", "summarised"}
    /\ proc' = [proc EXCEPT !.status = "killed", !.code = 143, !.signal = "SIGTERM"]
    /\ pc' = "exit"
    /\ UNCHANGED <<cfg, now, packets_this_loop, wrote, frames_map,
                   completed_frames, frames_written, frames_dropped, sec, tot,
                   sec_start, run_start, last_write_ts, out, env_vars, attempts, api_vars,
                   fpp_vars, vp, next_id, enq_log>>

\* Runs without a time limit and runs of one second, the clock stepping by
\* half a second; a burst of every kind of datagram.
RunConfigs ==
    [ width : {1}, height : {1}, max_fps : {0}, frame_timeout_ms : {1},
      batch_limit : {2}, duration_sec : {0, 1}, tick_steps : {{OneSecond \div 2}},
      horizon : {3 * OneSecond} ]

InitRun ==
    /\ \E c \in RunConfigs : InitBridge(c)
    /\ NoApi
    /\ NoFpp
    /\ stream = StreamOf(7, "mixed")
    /\ net = {}
    /\ source = {}
    /\ budget = 0
    /\ sent = <<>>

NextRun ==
    \/ RecvStream
    \/ Loop
    \/ final_summary
    \/ main_returns
    \/ KeyboardInterrupt
    \/ SIGTERM

\* The statements after the loop run one after the other.
SpecRun == InitRun /\ [][NextRun]_vars /\ WF_vars(final_summary \/ main_returns)

\* ------------------------------------------------ a socket that fails
\* Bursts of whole frames and of heads wait in the socket; any call of
\* recvfrom may raise an error instead of returning the next datagram.
SockConfigs ==
    [ width : {1}, height : {1}, max_fps : {0}, frame_timeout_ms : {1},
      batch_limit : {1, 2}, duration_sec : {0}, tick_steps : {{TimeoutStep}},
      horizon : {OneSecond + MaxTicks * TimeoutStep} ]

InitSock ==
    /\ \E c \in SockConfigs : InitBridge(c)
    /\ NoApi
    /\ NoFpp
    /\ \E n \in {0, 3} : \E shape \in {"whole", "heads"} : stream = StreamOf(n, shape)
    /\ net = {}
    /\ source = {}
    /\ budget = 0
    /\ sent = <<>>

NextSock == RecvStream \/ RecvError \/ Loop

SpecSock == InitSock /\ [][NextSock]_vars

\* ------------------------------------------------- API server playback
\* The Flask server runs threaded: every request has a thread of its own.
\* A request thread is at one of: "idle" (no request yet), "stop" (at the
\* head of stop_current_playback), "join", "clear" (before the black
\* frame), "writing" (inside matrix.fpp.write), "start" (about to start the
\* playback thread), "done".  A playback thread is at one of: "unborn",
\* "init" (head of play_video_thread), "play" (head of VideoPlayer.play),
\* "loop" (at if self._stop), "write" (inside fpp.write, under
\* render_colors), "finally", "dead".
FramesPerPass == 1         \* frames of the rendered video

is_alive(t) == players[t].pc \notin {"unborn", "dead"}

SetReq(r, p) == [requests EXCEPT ![r].pc = p]

\* POST /api/play, request and rendered file accepted.
play_video ==
  \E r \in DOMAIN requests :
    /\ requests[r].pc = "idle"
    /\ requests' = [requests EXCEPT ![r] = [pc |-> "stop", kind |-> "play"]]
    /\ UNCHANGED <<playback_active, current_player, playback_thread, players>>
    /\ UNCHANGED <<bridge_vars, fpp_vars, proc, vp, registry>>

\* POST /api/stop.
stop_playback ==
  \E r \in DOMAIN requests :
    /\ requests[r].pc = "idle"
    /\ requests' = [requests EXCEPT ![r] = [pc |-> "stop", kind |-> "stop"]]
    /\ UNCHANGED <<playback_active, current_player, playback_thread, players>>
    /\ UNCHANGED <<bridge_vars, fpp_vars, proc, vp, registry>>

\* stop_current_playback up to the join: clear the flags, and stop the
\* current player if there is one.
stop_current_playback ==
  \E r \in DOMAIN requests :
    /\ requests[r].pc = "stop"
    /\ playback_active' = FALSE
    /\ IF current_player # 0
       THEN /\ players' = [players EXCEPT ![current_player].stop = TRUE]
            /\ current_player' = 0
       ELSE UNCHANGED <<players, current_player>>
    /\ requests' = SetReq(r, "join")
    /\ UNCHANGED playback_thread
    /\ UNCHANGED <<bridge_vars, fpp_vars, proc, vp, registry>>

\* There is no live playback thread, or join returns because it ended.
join_returns ==
  \E r \in DOMAIN requests :
    /\ requests[r].pc = "join"
    /\ playback_thread # 0 => ~is_alive(playback_thread)
    /\ playback_thread' = 0
    /\ requests' = SetReq(r, "clear")
    /\ UNCHANGED <<playback_active, current_player, players>>
    /\ UNCHANGED <<bridge_vars, fpp_vars, proc, vp, registry>>

\* join(timeout=2) returns with the thread alive: possible when the thread
\* has not been told to stop, and so goes on playing for as long as its
\* video lasts.
join_times_out ==
  \E r \in DOMAIN requests :
    /\ requests[r].pc = "join"
    /\ playback_thread # 0
    /\ is_alive(playback_thread)
    /\ ~players[playback_thread].stop
    /\ playback_thread' = 0
    /\ requests' = SetReq(r, "clear")
    /\ UNCHANGED <<playback_active, current_player, players>>
    /\ UNCHANGED <<bridge_vars, fpp_vars, proc, vp, registry>>

\* matrix.clear(); matrix.fpp.write(matrix.dot_colors) is entered ...
clear_begin ==
  \E r \in DOMAIN requests :
    /\ requests[r].pc = "clear"
    /\ requests' = SetReq(r, "writing")
    /\ UNCHANGED <<playback_active, current_player, playback_thread, players>>
    /\ UNCHANGED <<bridge_vars, fpp_vars, proc, vp, registry>>

\* ... and returns; stop_current_playback returns.
clear_end ==
  \E r \in DOMAIN requests :
    /\ requests[r].pc = "writing"
    /\ requests' = SetReq(r, IF requests[r].kind = "play" THEN "start" ELSE "done")
    /\ UNCHANGED <<playback_active, current_player, playback_thread, players>>
    /\ UNCHANGED <<bridge_vars, fpp_vars, proc, vp, registry>>

\* play_video after stop_current_playback: start a new playback thread.
start_thread ==
  \E r \in DOMAIN requests :
    /\ requests[r].pc = "start"
    /\ \E t \in DOMAIN players : \E loop \in BOOLEAN :
         /\ players[t].pc = "unborn"
         /\ \A u \in DOMAIN players : u < t => players[u].pc # "unborn"
         /\ playback_active' = TRUE
         /\ playback_thread' = t
         /\ players' = [players EXCEPT ![t].pc = "init", ![t].loop = loop]
    /\ requests' = SetReq(r, "done")
    /\ UNCHANGED current_player
    /\ UNCHANGED <<bridge_vars, fpp_vars, proc, vp, registry>>

\* play_video_thread: player = VideoPlayer(matrix); current_player = player
play_video_thread ==
  \E t \in DOMAIN players :
    /\ players[t].pc = "init"
    /\ players' = [players EXCEPT ![t].pc = "play", ![t].stop = FALSE]
    /\ current_player' = t
    /\ UNCHANGED <<playback_active, playback_thread, requests>>
    /\ UNCHANGED <<bridge_vars, fpp_vars, proc, vp, registry>>

\* VideoPlayer.play up to its loop: self._stop = False, load the clip.
play ==
  \E t \in DOMAIN players :
    /\ players[t].pc = "play"
    /\ players' = [players EXCEPT ![t].pc = "loop", ![t].stop = FALSE,
                                  ![t].left = FramesPerPass]
    /\ UNCHANGED <<playback_active, current_player, playback_thread, requests>>
    /\ UNCHANGED <<bridge_vars, fpp_vars, proc, vp, registry>>

\* The head of the frame loop: return if stopped or played to the end,
\* else render the next frame, which enters fpp.write.
next_frame ==
  \E t \in DOMAIN players :
    /\ players[t].pc = "loop"
    /\ players' = [players EXCEPT ![t].pc =
                     IF players[t].stop \/ (players[t].left = 0 /\ ~players[t].loop)
                     THEN "finally" ELSE "write",
                   ![t].left = IF @ = 0 THEN FramesPerPass ELSE @]
    /\ UNCHANGED <<playback_active, current_player, playback_thread, requests>>
    /\ UNCHANGED <<bridge_vars, fpp_vars, proc, vp, registry>>

\* fpp.write returns; on to the next frame.
frame_written ==
  \E t \in DOMAIN players :
    /\ players[t].pc = "write"
    /\ players' = [players EXCEPT ![t].pc = "loop", ![t].left = @ - 1]
    /\ UNCHANGED <<playback_active, current_player, playback_thread, requests>>
    /\ UNCHANGED <<bridge_vars, fpp_vars, proc, vp, registry>>

\* finally: playback_active = False; current_player = None
thread_finally ==
  \E t \in DOMAIN players :
    /\ players[t].pc = "finally"
    /\ players' = [players EXCEPT ![t].pc = "dead"]
    /\ playback_active' = FALSE
    /\ current_player' = 0
    /\ UNCHANGED <<playback_thread, requests>>
    /\ UNCHANGED <<bridge_vars, fpp_vars, proc, vp, registry>>

InitApi ==
    /\ \E c \in Configs : InitBridge(c)
    /\ NoFpp
    /\ net = {}
    /\ source = {}
    /\ budget = 0
    /\ sent = <<>>
    /\ stream = <<>>
    /\ vp = [pc |-> "idle"]
    /\ playback_active = FALSE
    /\ current_player = 0
    /\ playback_thread = 0
    /\ requests = [r \in 1..MaxRequests |-> [pc |-> "idle", kind |-> "none"]]
    /\ players = [t \in 1..MaxRequests |->
                    [pc |-> "unborn", stop |-> FALSE, loop |-> FALSE, left |-> 0]]
    /\ registry = _registry

NextApi ==
    \/ play_video
    \/ stop_playback
    \/ stop_current_playback
    \/ join_returns
    \/ join_times_out
    \/ clear_begin
    \/ clear_end
    \/ start_thread
    \/ play_video_thread
    \/ play
    \/ next_frame
    \/ frame_written
    \/ thread_finally

SpecApi == InitApi /\ [][NextApi]_vars

\* ------------------------------------------------------------ FPPOutput
\* A pixel is <<r, g, b>>; dot_colors is the H x W grid flattened row by row
\* (colors_flat), pixel (row, col) at position row * W + col + 1.  A float is
\* the exact rational <<n, d>>; gamma is 0 for None, else the exponent.

Orders == {"RGB", "RBG", "GRB", "GBR", "BRG", "BGR"}

\* A lookup with the entries of GBR and BRG exchanged.
inverse_channel_indices(order) ==
    CASE order = "RGB" -> <<0, 1, 2>>
      [] order = "RBG" -> <<0, 2, 1>>
      [] order = "GRB" -> <<1, 0, 2>>
      [] order = "GBR" -> <<2, 0, 1>>
      [] order = "BRG" -> <<1, 2, 0>>
      [] order = "BGR" -> <<2, 1, 0>>
      [] OTHER -> <<0, 1, 2>>

make_channel_indices(order) ==
    CASE order = "RGB" -> <<0, 1, 2>>
      [] order = "RBG" -> <<0, 2, 1>>
      [] order = "GRB" -> <<1, 0, 2>>
      [] order = "GBR" -> <<1, 2, 0>>
      [] order = "BRG" -> <<2, 0, 1>>
      [] order = "BGR" -> <<2, 1, 0>>
      [] OTHER -> <<0, 1, 2>>

\* channel_gains == (1.0, 1.0, 1.0)
Unity == << <<1, 1>>, <<1, 1>>, <<1, 1>> >>

RECURSIVE Pow(_, _)
Pow(b, e) == IF e = 0 THEN 1 ELSE b * Pow(b, e - 1)

Mul(x, g) == <<x[1] * g[1], x[2] * g[2]>>

\* A clip whose upper bound is one too low.
clip_below_white(x) ==
    IF x[1] < 0 THEN <<0, 1>>
    ELSE IF x[1] >= 255 * x[2] THEN <<254, 1>> ELSE x

\* np.clip(arr, 0, 255), max(0, min(255, x))
Clip(x) ==
    IF x[1] < 0 THEN <<0, 1>>
    ELSE IF x[1] > 255 * x[2] THEN <<255, 1>> ELSE x

\* power(clip(x, 0, 255) / 255.0, gamma) * 255.0
GammaCurve(x, gamma) ==
    LET c == Clip(x)
    IN  <<Pow(c[1], gamma), Pow(c[2], gamma) * Pow(255, gamma - 1)>>

\* astype(np.uint8) of a value in [0, 255]: the fraction is cut off
Trunc(x) == x[1] \div x[2]

\* round(): to the nearest integer, a tie to the even one
Round(x) ==
    LET q == x[1] \div x[2]
        r == x[1] % x[2]
    IN  IF 2 * r < x[2] THEN q
        ELSE IF 2 * r > x[2] THEN q + 1
        ELSE IF q % 2 = 0 THEN q ELSE q + 1

\* gamma is not None and abs(gamma - 1.0) > 1e-3
UsesGamma == fpp.gamma # 0 /\ fpp.gamma # 1

apply_correction_numpy(arr) ==
    IF fpp.gamma = 0 /\ fpp.channel_gains = Unity /\ fpp.channel_idx = <<0, 1, 2>>
    THEN arr
    ELSE [p \in 1..Len(arr) |->
            LET f == [k \in 1..3 |-> <<arr[p][k], 1>>]
                g == IF fpp.channel_gains # Unity
                     THEN [k \in 1..3 |-> Mul(f[k], fpp.channel_gains[k])]
                     ELSE f
                c == IF UsesGamma
                     THEN [k \in 1..3 |-> GammaCurve(g[k], fpp.gamma)]
                     ELSE g
                u == [k \in 1..3 |-> Trunc(Clip(c[k]))]
                i == fpp.channel_idx
            IN  IF i # <<0, 1, 2>>
                THEN <<u[i[1] + 1], u[i[2] + 1], u[i[3] + 1]>>
                ELSE <<u[1], u[2], u[3]>>]

apply_correction_tuple(pixel) ==
    LET i == fpp.channel_idx
        o == IF i # <<0, 1, 2>>
             THEN <<pixel[i[1] + 1], pixel[i[2] + 1], pixel[i[3] + 1]>>
             ELSE pixel
    IN  IF fpp.channel_gains # Unity \/ UsesGamma
        THEN LET f == [k \in 1..3 |-> Mul(<<o[k], 1>>, fpp.channel_gains[k])]
                 c == IF UsesGamma
                      THEN [k \in 1..3 |-> GammaCurve(f[k], fpp.gamma)]
                      ELSE f
             IN  <<Max(0, Min(255, Round(c[1]))),
                   Max(0, Min(255, Round(c[2]))),
                   Max(0, Min(255, Round(c[3])))>>
        ELSE o

\* ---- the mapping file and the routing table
\* A CSV cell: digits (an integer), blank, or some other text.
Digits(n) == [kind |-> "int", val |-> n]
Blank == [kind |-> "blank", val |-> 0]
Word == [kind |-> "word", val |-> 0]

\* The staggered wall: LED (r \div 2) * W + c + 1 at physical row r of column c,
\* where r and c have the same parity; plus is added to every LED number.
StaggerRows(W, H, parity, plus) ==
    [r \in 1..Min(2 * H, 99) |->
       [c \in 1..W |->
          IF (r - 1) % 2 = (c - 1 + parity) % 2
          THEN Digits(((r - 1) \div 2) * W + c + plus)
          ELSE Blank]]

CsvNames == {"missing", "empty", "stagger", "shifted", "unparsable", "offgrid"}

\* The mapping files the writer is constructed with, for a W x H wall.
CsvFile(name, W, H) ==
    CASE name = "missing" -> [exists |-> FALSE, rows |-> <<>>]
      [] name = "empty" -> [exists |-> TRUE, rows |-> <<>>]
      [] name = "stagger" -> [exists |-> TRUE, rows |-> StaggerRows(W, H, 0, 0)]
      [] name = "shifted" -> [exists |-> TRUE, rows |-> StaggerRows(W, H, 0, W * H)]
      [] name = "unparsable" ->
            [exists |-> TRUE, rows |-> <<<<Word, Digits(0), Blank>>, <<Digits(-3)>>>>]
      [] name = "offgrid" -> [exists |-> TRUE, rows |-> StaggerRows(W, H, 1, 0)]

\* except FileNotFoundError: mapping[(p // 90, p % 90)] = p for p in range(4500)
BuiltinKeys == {<<p \div 90, p % 90>> : p \in 0..4499}

load_light_wall_mapping(csv) ==
    IF ~csv.exists
    THEN [k \in BuiltinKeys |-> k[1] * 90 + k[2]]
    ELSE LET rows == csv.rows
             Kept(cell) == cell.kind = "int" /\ cell.val - 1 >= 0
             keys == UNION {{<<r - 1, c - 1>> :
                               c \in {c \in 1..Len(rows[r]) : Kept(rows[r][c])}} :
                            r \in 1..Len(rows)}
         IN  [k \in keys |-> rows[k[1] + 1][k[2] + 1].val - 1]

physical_row(visual_row, visual_col) ==
    LET r == IF visual_col % 2 = 0 THEN visual_row * 2 ELSE visual_row * 2 + 1
    IN  IF r > 98 THEN 97 ELSE r

\* for visual_row in range(height): for visual_col in range(width)
Cells(W, H) == [k \in 1..(W * H) |-> [row |-> (k - 1) \div W, col |-> (k - 1) % W]]

arange(n) == [i \in 1..n |-> i - 1]

build_routing_table(m, W, H, has_numpy) ==
    IF DOMAIN m = {}
    THEN [routing_table |-> <<>>, fast_dest |-> <<>>, fast_src |-> <<>>]
    ELSE LET Key(cell) == <<physical_row(cell.row, cell.col), cell.col>>
             Routed(cell) == /\ Key(cell) \in DOMAIN m
                             /\ 0 <= m[Key(cell)]
                             /\ m[Key(cell)] < 4500
             kept == SelectSeq(Cells(W, H), Routed)
             dest_indices == [i \in 1..Len(kept) |-> m[Key(kept[i])]]
             src_indices == [i \in 1..Len(kept) |-> kept[i].row * W + kept[i].col]
         IN  [routing_table |->
                 [i \in 1..Len(kept) |->
                    [row |-> kept[i].row, col |-> kept[i].col,
                     bytes |-> <<dest_indices[i] * 3>>]],
              fast_dest |-> IF has_numpy
                            THEN IF Len(kept) > 0 THEN dest_indices ELSE arange(W * H)
                            ELSE <<>>,
              fast_src |-> IF has_numpy
                           THEN IF Len(kept) > 0 THEN src_indices ELSE arange(W * H)
                           ELSE <<>>]

\* ---- write and write_solid
NumPixels == fpp.width * fpp.height

\* The frames handed to write: byte j of the frame is (base + step * j) % 256.
Frame(f, n) ==
    [i \in 1..n |-> [k \in 1..3 |-> (f[1] + f[2] * (3 * (i - 1) + k - 1)) % 256]]

Frames == {<<10, 10>>, <<0, 1>>, <<1, 1>>, <<2, 1>>, <<250, 7>>}

Solids == {<<0, 0, 0>>, <<255, 255, 255>>, <<10, 20, 30>>, <<1, 128, 254>>, <<201, 3, 127>>}

\* The buffer after the pixels values[1..n] were stored at the LEDs dest[1..n],
\* in this order: a later store to the same LED replaces an earlier one.
Stored(buf, dest, values, n) ==
    [j \in 1..Len(buf) |->
       LET hits == {i \in 1..n : dest[i] = (j - 1) \div 3}
       IN  IF hits = {} THEN buf[j]
           ELSE values[CHOOSE i \in hits : \A h \in hits : h <= i][((j - 1) % 3) + 1]]

\* The first store that lies outside the buffer, else 0.
FirstOutside(dest) ==
    IF \E i \in 1..Len(dest) : dest[i] >= NumPixels
    THEN CHOOSE i \in 1..Len(dest) :
            /\ dest[i] >= NumPixels
            /\ \A h \in 1..(i - 1) : dest[h] < NumPixels
    ELSE 0

\* A writer that stores whether or not it has a memory map.
never_degraded == FALSE

\* if not self.memory_map: return 0.0
Degraded == ~fpp.memory_map

write ==
    \E f \in Frames : \E ndarray \in BOOLEAN :
      LET dot_colors == Frame(f, NumPixels)
          fast == fpp.has_numpy /\ ndarray /\ fast_dest # <<>>
          dest == IF fast THEN fast_dest
                  ELSE [i \in 1..Len(routing_table) |-> routing_table[i].bytes[1] \div 3]
          corrected ==
              IF fast
              THEN apply_correction_numpy(
                      [i \in 1..Len(fast_src) |-> dot_colors[fast_src[i] + 1]])
              ELSE [i \in 1..Len(routing_table) |->
                      apply_correction_tuple(
                         dot_colors[routing_table[i].row * fpp.width
                                    + routing_table[i].col + 1])]
          bad == FirstOutside(dest)
      IN  /\ fpp_pc = "ready"
          /\ NumPixels > 0
          /\ ndarray => fpp.has_numpy
          /\ IF Degraded
             THEN /\ call' = [kind |-> "write", dot_colors |-> dot_colors,
                              ndarray |-> ndarray, raised |-> FALSE, done |-> FALSE,
                              ret |-> "0.0"]
                  /\ UNCHANGED buffer
             ELSE IF bad = 0
             THEN /\ buffer' = Stored(buffer, dest, corrected, Len(dest))
                  /\ call' = [kind |-> "write", dot_colors |-> dot_colors,
                              ndarray |-> ndarray, raised |-> FALSE, done |-> TRUE,
                              ret |-> "elapsed_ms"]
             ELSE \* IndexError: the stores before the failing one may have happened
                  /\ \/ buffer' = Stored(buffer, dest, corrected, bad - 1)
                     \/ fast /\ UNCHANGED buffer
                  /\ call' = [kind |-> "write", dot_colors |-> dot_colors,
                              ndarray |-> ndarray, raised |-> TRUE, done |-> FALSE,
                              ret |-> "none"]
          /\ UNCHANGED <<fpp, routing_table, fast_dest, fast_src, fpp_pc, shm, overlay>>
          /\ UNCHANGED <<bridge_vars, api_vars, proc, vp>>

write_solid ==
    \E rgb \in Solids :
      /\ fpp_pc = "ready"
      /\ NumPixels > 0
      /\ IF Degraded
         THEN /\ call' = [kind |-> "write_solid", dot_colors |-> <<rgb>>,
                          ndarray |-> FALSE, raised |-> FALSE, done |-> FALSE,
                          ret |-> "0.0"]
              /\ UNCHANGED buffer
         ELSE /\ buffer' = [j \in 1..Len(buffer) |->
                              apply_correction_tuple(rgb)[((j - 1) % 3) + 1]]
              /\ call' = [kind |-> "write_solid", dot_colors |-> <<rgb>>,
                          ndarray |-> FALSE, raised |-> FALSE, done |-> TRUE,
                          ret |-> "elapsed_ms"]
      /\ UNCHANGED <<fpp, routing_table, fast_dest, fast_src, fpp_pc, shm, overlay>>
      /\ UNCHANGED <<bridge_vars, api_vars, proc, vp>>

GainSets == {Unity,
             << <<1, 2>>, <<1, 1>>, <<2, 1>> >>,
             << <<3, 2>>, <<3, 2>>, <<3, 2>> >>}

\* Colour corrections on a 2 x 2 wall, and mapping files on a 2 x 2 and a
\* 2 x 50 wall (the height at which the last odd row is clamped).
FppConfigs ==
    [width : {2}, height : {2}, color_order : Orders, gamma : {0, 1, 2},
     channel_gains : GainSets, has_numpy : BOOLEAN, csv : {"stagger", "offgrid"},
     memory_map : {TRUE}]
    \cup
    [width : {2}, height : {2}, color_order : {"RGB", "GRB"}, gamma : {0, 1},
     channel_gains : {Unity}, has_numpy : BOOLEAN, csv : CsvNames,
     memory_map : {TRUE}]
    \cup
    [width : {2}, height : {50}, color_order : {"RGB"}, gamma : {0, 1},
     channel_gains : {Unity}, has_numpy : BOOLEAN, csv : {"stagger", "missing"},
     memory_map : {TRUE}]
    \cup
    [width : {2}, height : {2}, color_order : {"RGB"}, gamma : {0},
     channel_gains : {Unity}, has_numpy : BOOLEAN, csv : {"stagger"},
     memory_map : {FALSE}]

\* The writer's mapping: load_light_wall_mapping() of the file it was built with.
mapping == load_light_wall_mapping(CsvFile(fpp.csv, fpp.width, fpp.height))

InitFpp ==
    /\ \E c \in FppConfigs :
         LET built == build_routing_table(
                         load_light_wall_mapping(CsvFile(c.csv, c.width, c.height)),
                         c.width, c.height, c.has_numpy)
         IN  /\ fpp = [width |-> c.width, height |-> c.height,
                       color_order |-> c.color_order, gamma |-> c.gamma,
                       channel_gains |-> c.channel_gains,
                       channel_idx |-> make_channel_indices(c.color_order),
                       has_numpy |-> c.has_numpy, csv |-> c.csv,
                       memory_map |-> c.memory_map]
             /\ routing_table = built.routing_table
             /\ fast_dest = built.fast_dest
             /\ fast_src = built.fast_src
             /\ buffer = [j \in 1..(c.width * c.height * 3) |-> 0]
             /\ call = [kind |-> "none"]
             /\ fpp_pc = "ready"
             /\ shm = [file |-> c.width * c.height * 3,
                       map |-> IF c.memory_map THEN c.width * c.height * 3 ELSE 0]
             /\ overlay = [attempt |-> 0, log |-> <<>>, sent |-> <<>>, result |-> "none"]
             /\ InitBridge([width |-> c.width, height |-> c.height, max_fps |-> 0,
                            frame_timeout_ms |-> 1, batch_limit |-> 1,
                            duration_sec |-> 0, tick_steps |-> {1},
                            horizon |-> 0])
    /\ NoApi
    /\ net = {}
    /\ source = {}
    /\ budget = 0
    /\ sent = <<>>
    /\ stream = <<>>

NextFpp == write \/ write_solid

SpecFpp == InitFpp /\ [][NextFpp]_vars

\* ------------------------------------------------- FPPOutput.__init__
\* The constructor step by step: _initialize_memory_map, inside it
\* _enable_overlay_state, then _build_routing_table.

\* One byte per pixel instead of three.
one_byte_per_pixel(W, H) == W * H

\* self.buffer_size = width * height * 3
buffer_size(W, H) == W * H * 3

max_attempts == 3

\* _enable_overlay_state(state=3): enabled, always on
OverlayState == 3

\* Overlay model names, as the words and separators they are made of: the
\* default of --model, a name with a space, and another model.
ModelNames == { <<"Light", "_", "Wall">>, <<"Light", " ", "Wall">>, <<"Tree">> }

\* model_name.replace(' ', '_')
replace_spaces(model_name) ==
    [i \in DOMAIN model_name |-> IF model_name[i] = " " THEN "_" ELSE model_name[i]]

\* mmap_path = f"/dev/shm/FPP-Model-Data-{model_name.replace(' ', '_')}"
mmap_path(model_name) == <<"/dev/shm/FPP-Model-Data-">> \o replace_spaces(model_name)

\* def _enable_overlay_state(self, model_name="Light_Wall", state=3), called
\* as self._enable_overlay_state()
overlay_model_name == <<"Light", "_", "Wall">>

\* url_set = f"http://localhost/api/overlays/model/{model_name}/state"
url_set == <<"http://localhost/api/overlays/model/">> \o overlay_model_name \o <<"/state">>

\* url_get = f"http://localhost/api/overlays/model/{model_name}"
url_get == <<"http://localhost/api/overlays/model/">> \o overlay_model_name

\* What the shared-memory file may be before the writer starts: missing (-1),
\* empty, one byte short, of the right size, too long.
PriorFiles(size) == {-1, 0, size - 1, size, size + 3}

\* _initialize_memory_map up to the call of _enable_overlay_state.  fail_at is
\* the statement that raises: the rewriting of the file, open(fpp_file, 'r+b'),
\* mmap.mmap, or none; both except clauses end in _cleanup.
initialize_memory_map ==
    /\ fpp_pc = "open"
    /\ \E fail_at \in {"none", "create", "open", "mmap"} :
         LET size == buffer_size(fpp.width, fpp.height)
             recreate == shm.file # size
             created == IF recreate THEN size ELSE shm.file
         IN  /\ fail_at = "create" => recreate
             /\ IF fail_at = "none"
                THEN /\ shm' = [file |-> created, map |-> size]
                     /\ fpp' = [fpp EXCEPT !.memory_map = TRUE]
                     /\ fpp_pc' = "put"
                     /\ overlay' = [overlay EXCEPT !.attempt = 1]
                ELSE /\ \E left \in (IF fail_at = "create" THEN {shm.file, 0}
                                                          ELSE {created}) :
                          shm' = [file |-> left, map |-> 0]
                     /\ fpp' = [fpp EXCEPT !.memory_map = FALSE]
                     /\ fpp_pc' = "build"
                     /\ UNCHANGED overlay
    /\ UNCHANGED <<routing_table, fast_dest, fast_src, buffer, call>>
    /\ UNCHANGED <<bridge_vars, api_vars, proc, vp>>

\* The next attempt at once, without the sleep.
no_backoff(ov) ==
    IF ov.attempt < max_attempts
    THEN /\ overlay' = [ov EXCEPT !.attempt = @ + 1]
         /\ fpp_pc' = "put"
    ELSE /\ overlay' = [ov EXCEPT !.result = "False"]
         /\ fpp_pc' = "build"

\* The end of one pass of "for attempt in range(1, max_attempts + 1)": sleep
\* before the next attempt, or leave the loop and return False.
EndAttempt(ov) ==
    IF ov.attempt < max_attempts
    THEN /\ overlay' = ov
         /\ fpp_pc' = "pause"
    ELSE /\ overlay' = [ov EXCEPT !.result = "False"]
         /\ fpp_pc' = "build"

\* urlopen(PUT) returns, or raises (refused, timeout after 5 s, HTTP error)
overlay_put ==
    /\ fpp_pc = "put"
    /\ \E ok \in BOOLEAN :
         IF ok
         THEN /\ overlay' = [overlay EXCEPT !.log = Append(@, "put"),
                                            !.sent = Append(@, <<"PUT", url_set>>)]
              /\ fpp_pc' = "get"
         ELSE EndAttempt([overlay EXCEPT !.log = Append(@, "put_failed"),
                                         !.sent = Append(@, <<"PUT", url_set>>)])
    /\ UNCHANGED <<fpp, routing_table, fast_dest, fast_src, buffer, call, shm>>
    /\ UNCHANGED <<bridge_vars, api_vars, proc, vp>>

\* Readback verification: urlopen(GET) raises, or reports a state
overlay_readback ==
    /\ fpp_pc = "get"
    /\ \E failed \in BOOLEAN : \E current \in {0, 1, OverlayState} :
         IF failed
         THEN EndAttempt([overlay EXCEPT !.log = Append(@, "readback_failed"),
                                         !.sent = Append(@, <<"GET", url_get>>)])
         ELSE IF current = OverlayState
         THEN /\ overlay' = [overlay EXCEPT !.log = Append(@, "confirmed"),
                                            !.sent = Append(@, <<"GET", url_get>>),
                                            !.result = "True"]
              /\ fpp_pc' = "build"
         ELSE EndAttempt([overlay EXCEPT !.log = Append(@, "mismatch"),
                                         !.sent = Append(@, <<"GET", url_get>>)])
    /\ UNCHANGED <<fpp, routing_table, fast_dest, fast_src, buffer, call, shm>>
    /\ UNCHANGED <<bridge_vars, api_vars, proc, vp>>

\* _t.sleep(1), then the next attempt
overlay_sleep ==
    /\ fpp_pc = "pause"
    /\ overlay' = [overlay EXCEPT !.log = Append(@, "sleep"), !.attempt = @ + 1]
    /\ fpp_pc' = "put"
    /\ UNCHANGED <<fpp, routing_table, fast_dest, fast_src, buffer, call, shm>>
    /\ UNCHANGED <<bridge_vars, api_vars, proc, vp>>

\* self._build_routing_table(), the last statement of __init__
build_routing ==
    /\ fpp_pc = "build"
    /\ LET built == build_routing_table(mapping, fpp.width, fpp.height,
                                        fpp.has_numpy)
       IN  /\ routing_table' = built.routing_table
           /\ fast_dest' = built.fast_dest
           /\ fast_src' = built.fast_src
    /\ fpp_pc' = "ready"
    /\ UNCHANGED <<fpp, buffer, call, shm, overlay>>
    /\ UNCHANGED <<bridge_vars, api_vars, proc, vp>>

CtorConfigs ==
    [width : {2}, height : {2}, color_order : {"RGB", "GRB"}, gamma : {0},
     channel_gains : {Unity}, has_numpy : BOOLEAN, csv : {"stagger"},
     model : ModelNames]

InitCtor ==
    /\ \E c \in CtorConfigs :
         /\ fpp = [width |-> c.width, height |-> c.height,
                   color_order |-> c.color_order, gamma |-> c.gamma,
                   channel_gains |-> c.channel_gains,
                   channel_idx |-> make_channel_indices(c.color_order),
                   has_numpy |-> c.has_numpy, csv |-> c.csv,
                   model |-> c.model, mapping_file |-> mmap_path(c.model),
                   memory_map |-> FALSE]
         /\ buffer = [j \in 1..buffer_size(c.width, c.height) |-> 0]
         /\ \E file \in PriorFiles(buffer_size(c.width, c.height)) :
               shm = [file |-> file, map |-> 0]
         /\ InitBridge([width |-> c.width, height |-> c.height, max_fps |-> 0,
                        frame_timeout_ms |-> 1, batch_limit |-> 1,
                        duration_sec |-> 0, tick_steps |-> {1},
                        horizon |-> 0])
    /\ routing_table = <<>>
    /\ fast_dest = <<>>
    /\ fast_src = <<>>
    /\ call = [kind |-> "none"]
    /\ fpp_pc = "open"
    /\ overlay = [attempt |-> 0, log |-> <<>>, sent |-> <<>>, result |-> "none"]
    /\ NoApi
    /\ net = {}
    /\ source = {}
    /\ budget = 0
    /\ sent = <<>>
    /\ stream = <<>>

Construct ==
    \/ initialize_memory_map
    \/ overlay_put
    \/ overlay_readback
    \/ overlay_sleep
    \/ build_routing

NextCtor == Construct \/ write \/ write_solid

\* The constructor is straight-line code of one thread: every urlopen has
\* timeout=5 and sleep(1) returns, so each of its steps is eventually taken.
SpecCtor == InitCtor /\ [][NextCtor]_vars /\ WF_vars(Construct)

\* --------------------------------------------------- VideoPlayer.play
\* One call of play, statement by statement, and stop() from another thread.
\* None is <<>>, a given value n is <<n>>.  vp.pc is one of "call" (the thread
\* that will call play has been started), "while", "for", "render" (inside
\* render_frame), "returned".
MaxRendered == 6           \* frames an endless playback is followed for

\* The arguments of the calls: clips of 0, 2 and 3 frames.
PlayArgs ==
    [total : {0, 2, 3}, start_frame : {-1, 0, 1, 3},
     end_frame : {<<>>, <<0>>, <<2>>, <<5>>}, loop : BOOLEAN,
     repeat : {<<>>, <<-1>>, <<0>>, <<1>>, <<2>>}]

\* infinite = loop or (repeat == 0)
infinite(loop, repeat) == loop \/ repeat = <<0>>

\* play down to "frames_rendered = 0 ... remaining = ...": reset the stop flag,
\* load the clip, clamp the range, return 0 if it is empty.
play_begin ==
    /\ vp.pc = "call"
    /\ LET end_frame == IF vp.end_frame = <<>> \/ vp.end_frame[1] > vp.total
                        THEN vp.total ELSE vp.end_frame[1]
           start_frame == IF vp.start_frame < 0 THEN 0 ELSE vp.start_frame
       IN  IF start_frame >= end_frame
           THEN vp' = [vp EXCEPT !.pc = "returned", !.stop = FALSE, !.ret = 0,
                                 !.first = start_frame, !.last = end_frame]
           ELSE vp' = [vp EXCEPT
                         !.pc = "while", !.stop = FALSE,
                         !.first = start_frame, !.last = end_frame,
                         !.infinite = infinite(vp.loop, vp.repeat),
                         !.remaining =
                            IF vp.repeat # <<>> /\ vp.repeat[1] > 0 THEN vp.repeat
                            ELSE IF infinite(vp.loop, vp.repeat) THEN <<>>
                            ELSE <<1>>]
    /\ UNCHANGED <<bridge_vars, api_vars, fpp_vars, proc>>

\* while infinite or (remaining is None or remaining > 0)
while_head ==
    /\ vp.pc = "while"
    /\ IF vp.infinite \/ vp.remaining = <<>> \/ vp.remaining[1] > 0
       THEN vp' = [vp EXCEPT !.pc = "for", !.idx = vp.first]
       ELSE vp' = [vp EXCEPT !.pc = "returned", !.ret = vp.frames_rendered]
    /\ UNCHANGED <<bridge_vars, api_vars, fpp_vars, proc>>

\* for idx in range(start_frame, end_frame): if self._stop: return ...;
\* after the last frame of a pass, count the pass
for_head ==
    /\ vp.pc = "for"
    /\ IF vp.idx < vp.last
       THEN IF vp.stop
            THEN vp' = [vp EXCEPT !.pc = "returned", !.ret = vp.frames_rendered]
            ELSE /\ vp.frames_rendered < MaxRendered
                 /\ vp' = [vp EXCEPT !.pc = "render"]
       ELSE vp' = [vp EXCEPT
                     !.pc = "while",
                     !.remaining = IF vp.infinite THEN @
                                   ELSE IF @ = <<>> THEN <<0>> ELSE <<@[1] - 1>>]
    /\ UNCHANGED <<bridge_vars, api_vars, fpp_vars, proc>>

\* render_frame(frames[idx]), the pacing sleep, frames_rendered += 1
render_frame ==
    /\ vp.pc = "render"
    /\ vp' = [vp EXCEPT !.pc = "for", !.rendered = Append(@, vp.idx),
                        !.frames_rendered = @ + 1, !.idx = @ + 1]
    /\ UNCHANGED <<bridge_vars, api_vars, fpp_vars, proc>>

\* VideoPlayer.stop(), called by another thread once the player exists
stop ==
    /\ vp.pc \in {"call", "while", "for", "render"}
    /\ ~vp.told
    /\ vp' = [vp EXCEPT !.stop = TRUE, !.told = TRUE]
    /\ UNCHANGED <<bridge_vars, api_vars, fpp_vars, proc>>

InitPlay ==
    /\ \E a \in PlayArgs :
         vp = [pc |-> "call", total |-> a.total, start_frame |-> a.start_frame,
               end_frame |-> a.end_frame, loop |-> a.loop, repeat |-> a.repeat,
               stop |-> FALSE, told |-> FALSE, first |-> 0, last |-> 0,
               infinite |-> FALSE, remaining |-> <<>>, idx |-> 0,
               frames_rendered |-> 0, rendered |-> <<>>, ret |-> -1]
    /\ \E c \in PaceConfigs : c.max_fps = 0 /\ InitBridge(c)
    /\ playback_active = FALSE
    /\ current_player = 0
    /\ playback_thread = 0
    /\ requests = <<>>
    /\ players = <<>>
    /\ registry = _registry
    /\ NoFpp
    /\ net = {}
    /\ source = {}
    /\ budget = 0
    /\ sent = <<>>
    /\ stream = <<>>

NextPlay == play_begin \/ while_head \/ for_head \/ render_frame \/ stop

\* The thread that runs play is never starved: each statement is reached.
SpecPlay ==
    InitPlay /\ [][NextPlay]_vars
    /\ WF_vars(play_begin \/ while_head \/ for_head \/ render_frame)

\* ======================================================= the Players registry
\* players.py. Two threads call the shared registry: the network thread on
\* each input from a phone, the game thread to register players, attach
\* handlers and pull inputs. Every method body runs inside "with self._lock".
\* A thread makes at most MaxCalls calls. Time (time.monotonic) is counted in
\* quarter seconds.
Ops == {"handle_input", "set_input_handler", "register", "next_input",
        "active_players"}

Cmds == {"LEFT", "HARD_DROP"}

ArgsOf(op) ==
    IF op = "handle_input" THEN Cmds
    ELSE IF op = "set_input_handler" THEN {"handler"}
    ELSE {""}

Me(t) == registry.thr[t]

Top(t) == Me(t).stack[Len(Me(t).stack)]

Registered(player_id) == player_id \in DOMAIN registry._players

\* Player(player_id=..., on_input=None): connected, empty backlog.
Player(player_id) == [connected |-> TRUE, on_input |-> "", backlog |-> <<>>]

\* A thread enters a registry method: it stands at the method's
\* "with self._lock".
Call(t) ==
    /\ Me(t).pc = "idle"
    /\ Me(t).calls < MaxCalls
    /\ \E op \in Ops, player_id \in PlayerIds, arg \in Cmds \cup {"handler", ""} :
         /\ arg \in ArgsOf(op)
         /\ registry' = [registry EXCEPT !.thr[t] =
                           [pc |-> "acquire", stack |-> <<op>>,
                            player_id |-> IF op = "active_players" THEN "" ELSE player_id,
                            arg |-> arg, ret |-> "", calls |-> @.calls + 1]]
    /\ UNCHANGED <<bridge_vars, fpp_vars, proc, vp, playback_active,
                   current_player, playback_thread, requests, players>>

\* Lock.acquire(): taken only when released, whoever asks.
acquire(t) ==
    /\ Me(t).pc = "acquire"
    /\ registry._lock = 0
    /\ registry' = [registry EXCEPT !._lock = t, !.thr[t].pc = "held"]
    /\ UNCHANGED <<bridge_vars, fpp_vars, proc, vp, playback_active,
                   current_player, playback_thread, requests, players>>

\* The end of a "with self._lock" block: the lock is released and the method
\* returns to its caller, which is the thread itself or the method that
\* called it.
Return(t, value) ==
    IF Len(Me(t).stack) = 1
    THEN [Me(t) EXCEPT !.pc = "idle", !.stack = <<>>, !.ret = value]
    ELSE [Me(t) EXCEPT !.pc = "held", !.stack = SubSeq(@, 1, Len(@) - 1)]

\* self.register(player_id) from inside a method: the thread stands at
\* register's own "with self._lock".
CallRegister(t) == [Me(t) EXCEPT !.pc = "acquire", !.stack = Append(@, "register")]

register(t) ==
    /\ Me(t).pc = "held"
    /\ Top(t) = "register"
    /\ LET player_id == Me(t).player_id
           existing == Registered(player_id)
       IN registry' = [registry EXCEPT
              !._players = IF existing
                           THEN [@ EXCEPT ![player_id].connected = TRUE]
                           ELSE (player_id :> Player(player_id)) @@ @,
              !._lock = 0,
              !.thr[t] = Return(t, "player")]
    /\ UNCHANGED <<bridge_vars, fpp_vars, proc, vp, playback_active,
                   current_player, playback_thread, requests, players>>

set_input_handler(t) ==
    /\ Me(t).pc = "held"
    /\ Top(t) = "set_input_handler"
    /\ LET player_id == Me(t).player_id
       IN IF ~Registered(player_id)
          THEN registry' = [registry EXCEPT !.thr[t] = CallRegister(t)]
          ELSE registry' = [registry EXCEPT
                   !._players[player_id].on_input = Me(t).arg,
                   !._lock = 0,
                   !.thr[t] = Return(t, "None")]
    /\ UNCHANGED <<bridge_vars, fpp_vars, proc, vp, playback_active,
                   current_player, playback_thread, requests, players>>

last_ts(player_id) ==
    IF player_id \in DOMAIN registry._last_hard_drop
    THEN registry._last_hard_drop[player_id]
    ELSE 0

InCooldown(player_id) == registry.clock - last_ts(player_id) < HARD_DROP_COOLDOWN

Without(f, k) == [x \in DOMAIN f \ {k} |-> f[x]]

\* The locked part of handle_input: look the player up (registering it when
\* missing), drop a repeated HARD_DROP, else enqueue the payload.
handle_input(t) ==
    /\ Me(t).pc = "held"
    /\ Top(t) = "handle_input"
    /\ LET player_id == Me(t).player_id
           cmd == Me(t).arg
       IN IF ~Registered(player_id)
          THEN registry' = [registry EXCEPT !.thr[t] = CallRegister(t)]
          ELSE IF cmd = "HARD_DROP" /\ InCooldown(player_id)
          THEN registry' = [registry EXCEPT
                   !._lock = 0,
                   !.thr[t] = Return(t, "None")]
          ELSE registry' = [registry EXCEPT
                   !._last_hard_drop =
                       IF cmd = "HARD_DROP"
                       THEN (player_id :> registry.clock) @@ @
                       ELSE Without(@, player_id),
                   !._players[player_id].backlog = Append(@, cmd),
                   !._lock = 0,
                   !.thr[t] = [Me(t) EXCEPT !.pc = "listeners"]]
    /\ UNCHANGED <<bridge_vars, fpp_vars, proc, vp, playback_active,
                   current_player, playback_thread, requests, players>>

\* The rest of handle_input, outside the lock: the listeners copied under
\* the lock are called, input_received is set, the method returns.
handle_input_listeners(t) ==
    /\ Me(t).pc = "listeners"
    /\ registry' = [registry EXCEPT
           !.input_received = TRUE,
           !.thr[t] = [Me(t) EXCEPT !.pc = "idle", !.stack = <<>>, !.ret = "None"]]
    /\ UNCHANGED <<bridge_vars, fpp_vars, proc, vp, playback_active,
                   current_player, playback_thread, requests, players>>

next_input(t) ==
    /\ Me(t).pc = "held"
    /\ Top(t) = "next_input"
    /\ LET player_id == Me(t).player_id
       IN IF ~Registered(player_id) \/ registry._players[player_id].backlog = <<>>
          THEN registry' = [registry EXCEPT
                   !._lock = 0,
                   !.thr[t] = Return(t, "None")]
          ELSE registry' = [registry EXCEPT
                   !._players[player_id].backlog = Tail(@),
                   !._lock = 0,
                   !.thr[t] = Return(t, Head(registry._players[player_id].backlog))]
    /\ UNCHANGED <<bridge_vars, fpp_vars, proc, vp, playback_active,
                   current_player, playback_thread, requests, players>>

active_players(t) ==
    /\ Me(t).pc = "held"
    /\ Top(t) = "active_players"
    /\ registry' = [registry EXCEPT
           !._lock = 0,
           !.thr[t] = Return(t, "list")]
    /\ UNCHANGED <<bridge_vars, fpp_vars, proc, vp, playback_active,
                   current_player, playback_thread, requests, players>>

\* time.monotonic() moves on between any two steps.
monotonic ==
    /\ registry.clock < MaxClock
    /\ registry' = [registry EXCEPT !.clock = @ + 1]
    /\ UNCHANGED <<bridge_vars, fpp_vars, proc, vp, playback_active,
                   current_player, playback_thread, requests, players>>

Step(t) ==
    \/ Call(t)
    \/ acquire(t)
    \/ register(t)
    \/ set_input_handler(t)
    \/ handle_input(t)
    \/ handle_input_listeners(t)
    \/ next_input(t)
    \/ active_players(t)

InitPlayers ==
    /\ \E c \in Configs : InitBridge(c)
    /\ NoFpp
    /\ NoApi
    /\ net = {}
    /\ source = {}
    /\ budget = 0
    /\ sent = <<>>
    /\ stream = <<>>

NextPlayers == monotonic \/ \E t \in Threads : Step(t)

\* A thread inside a registry method is scheduled again: each statement it
\* can execute is executed.
SpecPlayers ==
    InitPlayers /\ [][NextPlayers]_vars /\ \A t \in Threads : WF_vars(Step(t) /\ Me(t).pc # "idle")

\* ================================================================ claims
Range(q) == {q[i] : i \in 1..Len(q)}

Popcount(received) == Cardinality({i \in 1..Len(received) : received[i] = 1})

AllFrames == Range(frames_map) \cup Range(completed_frames) \cup Range(enq_log)

Ids(q) == {q[i].id : i \in 1..Len(q)}

\* C2: a FrameState is appended to the completed queue, and so written, only
\* when its missing counter is 0 and PUSH has been seen: every frame ever
\* enqueued is fully covered with PUSH seen, the output holds only enqueued
\* frames, and an active frame with PUSH seen but bytes uncovered is in
\* neither the queue nor the output.
C2_OnlyCompleteEnqueued ==
    /\ \A e \in Range(enq_log) \cup Range(completed_frames) :
          /\ e.missing = 0
          /\ e.saw_eof
          /\ \A i \in 1..frame_size : e.received[i] = 1
    /\ Range(completed_frames) \subseteq Range(enq_log)
    /\ out # <<>> => \E e \in Range(enq_log) : out = e.buf
    /\ \A f \in Range(frames_map) :
          f.saw_eof /\ f.missing > 0 => f.id \notin Ids(enq_log)

C2_Witness ==
    /\ \E f \in Range(frames_map) :
          f.saw_eof /\ \E i \in 1..frame_size : f.received[i] = 0
    /\ enq_log # <<>>
    /\ out # <<>>

\* C3: for every FrameState, after any accepted chunks (overlapping and
\* duplicate ones too), missing = frame_size - popcount(received), and so
\* 0 <= missing <= frame_size.
C3_MissingIsUncovered ==
    \A f \in AllFrames :
        /\ f.missing = frame_size - Popcount(f.received)
        /\ 0 <= f.missing
        /\ f.missing <= frame_size

C3_Witness ==
    \E f \in Range(frames_map) :
        f.chunks >= 3 /\ f.missing > 0 /\ f.missing < frame_size

\* The bytes of the chunk are in the frame: its range is covered and the
\* buffer holds its payload there.
Holds(fr, off, payload) ==
    \A i \in 1..Len(payload) :
        /\ off + i <= Len(fr.buf)
        /\ fr.received[off + i] = 1
        /\ fr.buf[off + i] = payload[i]

\* C4: receiving again a chunk whose bytes an active FrameState already
\* holds (same sender, sequence, offset and payload) leaves that
\* FrameState's missing counter and buffer unchanged, whether the
\* FrameState stays active or a PUSH flag on the duplicate completes it.
C4_DuplicateChunk ==
    [][ packets_this_loop' = packets_this_loop + 1 =>
        \A d \in source \cup net :
          LET data == recvfrom(d.data) IN
          (/\ Receive(d.sender, d.data)
           /\ ParseOk(data)
           /\ \E k \in KeyIndex(frames_map, d.sender, hdr_seq(data)) :
                 Holds(frames_map[k], hdr_off(data), hdr_payload(data)))
          => \E k \in KeyIndex(frames_map, d.sender, hdr_seq(data)) :
               \E f \in Range(frames_map') \cup Range(completed_frames') :
                  /\ f.id = frames_map[k].id
                  /\ f.missing = frames_map[k].missing
                  /\ f.buf = frames_map[k].buf
                  /\ f.chunks = frames_map[k].chunks + 1 ]_vars

\* A frame that took the same one-byte chunk twice: two chunks, one byte.
C4_Witness ==
    \E f \in Range(frames_map) :
        f.chunks = 2 /\ f.missing = frame_size - 1

\* C5: each FrameState is appended to the completed queue at most once and
\* leaves the active table in that step: no FrameState is both active and
\* enqueued, and later chunks for its key go to a fresh FrameState.
C5_MovedOnce ==
    /\ \A i, j \in 1..Len(enq_log) : enq_log[i].id = enq_log[j].id => i = j
    /\ Ids(frames_map) \cap (Ids(enq_log) \cup Ids(completed_frames)) = {}
    /\ Ids(completed_frames) \subseteq Ids(enq_log)
    /\ \A i, j \in 1..Len(completed_frames) :
          completed_frames[i].id = completed_frames[j].id => i = j

C5_Witness ==
    \E e \in Range(enq_log) : \E f \in Range(frames_map) :
        f.sender = e.sender /\ f.seq = e.seq /\ f.id > e.id /\ f.chunks >= 1

Pristine(fr) ==
    /\ fr.missing = frame_size
    /\ fr.chunks = 0
    /\ \A i \in 1..frame_size : fr.buf[i] = 0 /\ fr.received[i] = 0

\* C6: a chunk is copied into a FrameState only if offset + length <=
\* frame_size.  One that ends exactly at frame_size is applied; one that
\* runs past it changes no frame buffer, coverage array or missing counter
\* (every FrameState of the table is as before, or is the untouched
\* FrameState made for the chunk's key) and completes nothing.
C6_BoundsCheck ==
    [][ packets_this_loop' = packets_this_loop + 1 =>
        \A d \in source \cup net :
          LET data == recvfrom(d.data) IN
          (Receive(d.sender, d.data) /\ ParseOk(data)) =>
             LET off == hdr_off(data)
                 ln == hdr_ln(data)
             IN IF off + ln > frame_size
                THEN /\ \A f \in Range(frames_map') :
                          f \in Range(frames_map) \/ Pristine(f)
                     /\ completed_frames' = completed_frames
                     /\ enq_log' = enq_log
                ELSE \E f \in Range(frames_map') \cup Range(enq_log') :
                        /\ f.sender = d.sender /\ f.seq = hdr_seq(data)
                        /\ f.chunks >= 1
                        /\ Holds(f, off, hdr_payload(data)) ]_vars

\* An overflowing chunk was rejected (it left the FrameState made for its
\* key untouched) and a chunk ending exactly at frame_size was applied.
C6_Witness ==
    /\ \E f \in Range(frames_map) : Pristine(f)
    /\ \E e \in Range(enq_log) : e.received[frame_size] = 1

IncompleteCount == sec.incomplete + tot.incomplete

\* C1 as stated: once every chunk of the frame has arrived, with nothing
\* expired or evicted, exactly one FrameState was appended to the completed
\* queue and its buffer is the frame.
C1_AnyChunking ==
    (net = {} /\ IncompleteCount = 0) =>
        Len(enq_log) = 1 /\ enq_log[1].buf = sent.frame

\* C1 amended: the same for every chunking whose chunks carry at most
\* 1490 payload bytes, so that each datagram fits recvfrom(1500); and at no
\* time is there a second appended FrameState or one with other contents.
C1_ChunksFitDatagram ==
    /\ \A e \in Range(enq_log) : e.buf = sent.frame
    /\ Len(enq_log) <= 1
    /\ (net = {} /\ IncompleteCount = 0
           /\ sent.longest <= RecvBufSize - HeaderLen) =>
          Len(enq_log) = 1 /\ enq_log[1].buf = sent.frame

\* A frame cut into three chunks has been put together.
C1_Witness ==
    /\ net = {}
    /\ Len(enq_log) = 1
    /\ enq_log[1].chunks = 3
    /\ enq_log[1].buf = sent.frame
    /\ sent.frame[1] # sent.frame[2]
    /\ sent.longest = 1

\* C1, the longest chunk that fits: a frame of 1491 bytes in two chunks of
\* 1490 and 1 has been put together.
C1_WitnessLongFrame ==
    /\ net = {}
    /\ Len(enq_log) = 1
    /\ enq_log[1].chunks = 2
    /\ frame_size = 3 * BigWidth
    /\ sent.longest = RecvBufSize - HeaderLen

\* C7: the active-frame table never holds more than max_active_frames (12)
\* FrameStates, whatever was received; in particular not at the head of a
\* main-loop iteration.
C7_TableCapped == Len(frames_map) <= 12

\* Fourteen frames lost their tails: the table is full and the two oldest
\* were evicted, with no time passed that could have expired them.
C7_Witness ==
    /\ Len(frames_map) = 12
    /\ frames_map[1].seq = 3
    /\ sec.incomplete = 2
    /\ now = run_start
    /\ pc = "end"

\* The frame the writer step finds newest in the completed queue.
Newest == completed_frames[Len(completed_frames)]

WriterRan == pc = "write" /\ pc' = "end" /\ completed_frames # <<>>

Completes == Len(enq_log') = Len(enq_log) + 1

\* C10 as stated: the completed queue never holds more than 50 frames, and
\* when a frame completes while it holds 50 the oldest is discarded and
\* the discard is counted in the drop counter.
C10_OverflowCounted ==
    [][(Completes /\ Len(completed_frames) = 50) =>
         /\ completed_frames' = Append(Tail(completed_frames), enq_log'[Len(enq_log')])
         /\ frames_dropped' = frames_dropped + 1]_vars

\* The part of C10 the queue does keep: never more than 50 frames.
C10_QueueBounded == Len(completed_frames) <= 50

\* The threads that are inside a write to the overlay buffer.
Writers ==
    { <<"request", r>> : r \in { q \in DOMAIN requests : requests[q].pc = "writing" } }
    \cup { <<"player", t>> : t \in { u \in DOMAIN players : players[u].pc = "write" } }

\* C9 as stated: at every moment at most one thread is executing a write to
\* the overlay buffer.
C9_SingleWriter == Cardinality(Writers) <= 1

\* The head of a main-loop iteration, before its first recvfrom.
LoopBoundary == pc = "recv" /\ packets_this_loop = 0

FramesIn == sec.frames_in + tot.frames_in
FramesOut == sec.frames_out + tot.frames_out
Drops == sec.dropped + tot.dropped

\* C11 as stated: at every main-loop iteration boundary the frames counted
\* in are the frames counted out plus the drops plus the frames still in
\* the completed queue.
C11_AllAccounted ==
    LoopBoundary => FramesIn = FramesOut + Drops + Len(completed_frames)

ScanRan == pc = "expire" /\ pc' = "pace"

\* Older than frame_timeout_ms; a millisecond is OneSecond / 1000 ticks.
TooOld(fr) == now - fr.start_ts > cfg.frame_timeout_ms * (OneSecond \div 1000)

\* C12: the expiry scan removes exactly the active FrameStates older than
\* the timeout, keeps the others in their order, and adds one to incomplete
\* for each frame removed; after it no active frame is older than the
\* timeout.
C12_ExpiryScan ==
    [][ScanRan =>
         /\ frames_map' = SelectSeq(frames_map, LAMBDA fr : ~TooOld(fr))
         /\ sec'.incomplete = sec.incomplete
              + Cardinality({i \in DOMAIN frames_map : TooOld(frames_map[i])})
         /\ \A i \in DOMAIN frames_map' :
              now' - frames_map'[i].start_ts
                 <= cfg.frame_timeout_ms * (OneSecond \div 1000)]_vars

\* One chunk of a frame arrived and nothing after it: the frame was
\* expired, incomplete = 1 and frames_out = 0.
C12_Witness ==
    /\ sec.packets + tot.packets = 1
    /\ IncompleteCount = 1
    /\ FramesOut = 0
    /\ frames_written = 0
    /\ frames_map = <<>>
    /\ enq_log = <<>>
    /\ pc = "pace"

\* 1/f in ticks, less the 500 microseconds (5 ticks) of slack.
ShortestGap == (OneSecond \div cfg.max_fps) - 5

\* A write to the output starts no earlier than 1/f - 500 us after the
\* previous successful write completed.
GapKept ==
    (WriterRan /\ cfg.max_fps > 0 /\ frames_written > 0) =>
        now - last_write_ts >= ShortestGap

\* A successful write sets last_write_ts to the instant after the write.
WriteStamps ==
    frames_written' = frames_written + 1 => last_write_ts' = now' /\ wrote'

\* The pacing step with max_fps = 0 takes no time.
NoPacing == (pc = "pace" /\ pc' = "write" /\ cfg.max_fps = 0) => now' = now

\* C13 as stated: writes keep the gap, last_write_ts is set to the
\* post-write instant and changes only by a successful write, and
\* max_fps = 0 means no pacing delay.
C13_StampedOnlyByWrite ==
    [][/\ GapKept
       /\ WriteStamps
       /\ last_write_ts' # last_write_ts => frames_written' = frames_written + 1
       /\ NoPacing]_vars

\* C13 amended: the same, but last_write_ts also changes once before the
\* first write: the first pacing step with max_fps > 0 replaces its
\* initial 0.0 by now - 1/f, so that the first write is not delayed.
C13_PacedWrites ==
    [][/\ GapKept
       /\ WriteStamps
       /\ last_write_ts' # last_write_ts =>
            \/ frames_written' = frames_written + 1
            \/ /\ pc = "pace" /\ cfg.max_fps > 0
               /\ last_write_ts = 0 /\ frames_written = 0
               /\ last_write_ts' = now - (OneSecond \div cfg.max_fps)
               /\ now' = now
       /\ NoPacing]_vars

\* Two writes at 1000 fps, the second started without a sleep exactly
\* 1/f - 500 us after the first, which was written at the start of the run.
C13_Witness ==
    /\ cfg.max_fps > 0
    /\ frames_written = 2
    /\ last_write_ts - run_start = ShortestGap

\* The receive step took datagram d.
Took(d) == packets_this_loop' = packets_this_loop + 1 /\ Receive(d.sender, d.data)

NothingAssembled ==
    /\ frames_map' = frames_map
    /\ completed_frames' = completed_frames
    /\ enq_log' = enq_log

\* C14 as stated: a datagram whose bytes after the 10-byte header are
\* fewer or more than the length declared in header bytes 6-7 is rejected:
\* no frame takes any of its bytes and its PUSH flag does nothing.
C14_LengthMismatchRejected ==
    [][\A d \in source \cup net :
         LET data == recvfrom(d.data) IN
         (Took(d) /\ Len(data) >= 10 /\ Len(data) - 10 # hdr_ln(data))
            => NothingAssembled]_vars

\* The part of C14 the parse check does give: a datagram with fewer bytes
\* after the header than declared is rejected.
C14_ShortPayloadRejected ==
    [][\A d \in source \cup net :
         LET data == recvfrom(d.data) IN
         (Took(d) /\ Len(data) >= 10 /\ Len(data) - 10 < hdr_ln(data))
            => NothingAssembled]_vars

PacketsCounted == sec.packets + tot.packets

\* A datagram the bridge rejects: by its parse checks, or because it runs
\* past the end of the frame.
IsMalformed(data) == ~ParseOk(data) \/ hdr_off(data) + hdr_ln(data) > frame_size

\* The part of C15 that holds: a step of the loop changes the packets counter only by receiving a
\* datagram, and every received datagram, well-formed or not, adds exactly
\* one; frames_in grows by one exactly when a frame completes, never on a
\* datagram the bridge rejects.
C15_PacketsCounted ==
    [][/\ PacketsCounted' = PacketsCounted
             + (IF packets_this_loop' = packets_this_loop + 1 THEN 1 ELSE 0)
       /\ FramesIn' = FramesIn + Len(enq_log') - Len(enq_log)
       /\ \A i \in DOMAIN stream :
             (i = 1 /\ Took(stream[1]) /\ IsMalformed(recvfrom(stream[1].data)))
                => FramesIn' = FramesIn /\ enq_log' = enq_log]_vars

\* Since the per-second statistics rolled over on a completed frame, a
\* head and four malformed datagrams were received: five packets counted,
\* no frame in.
C15_Witness ==
    /\ tot.packets > 0
    /\ tot.frames_in >= 1
    /\ sec.packets = 5
    /\ sec.frames_in = 0

\* Malformed as C15 lists it: bad magic byte, shorter than the 10-byte
\* header, payload length other than declared, or past the end of the frame.
ListedMalformed(data) ==
    \/ Len(data) = 0
    \/ data[1] # 65
    \/ Len(data) < 10
    \/ Len(data) - 10 # hdr_ln(data)
    \/ hdr_off(data) + hdr_ln(data) > frame_size

\* C15 as stated: a malformed datagram is counted as a packet and never
\* increments frames_in.
C15_MalformedNeverFrameIn ==
    [][\A i \in DOMAIN stream :
         (i = 1 /\ Took(stream[1]) /\ ListedMalformed(recvfrom(stream[1].data)))
            => PacketsCounted' = PacketsCounted + 1 /\ FramesIn' = FramesIn]_vars

\* ---- FPPOutput: what a finished call stored
Wrote == call.kind # "none" /\ call.done

FastPath == call.kind = "write" /\ fpp.has_numpy /\ call.ndarray /\ fast_dest # <<>>

\* The routing the last call of write went by: source pixels and LEDs.
RouteSrc ==
    IF FastPath THEN fast_src
    ELSE [i \in 1..Len(routing_table) |->
            routing_table[i].row * fpp.width + routing_table[i].col]

RouteDest ==
    IF FastPath THEN fast_dest
    ELSE [i \in 1..Len(routing_table) |-> routing_table[i].bytes[1] \div 3]

LastStore(i) == \A h \in (i + 1)..Len(RouteDest) : RouteDest[h] # RouteDest[i]

Led(q) == <<buffer[3 * q + 1], buffer[3 * q + 2], buffer[3 * q + 3]>>

\* clamp(gamma(gains[k] * input[order[k]])), before it is made an integer
SpecValue(pixel, k) ==
    LET g == Mul(<<pixel[fpp.channel_idx[k] + 1], 1>>, fpp.channel_gains[k])
    IN  Clip(IF UsesGamma THEN GammaCurve(g, fpp.gamma) ELSE g)

\* led is SpecValue of pixel in every channel, made an integer by rounding
\* either way.
AsSpecified(led, pixel) ==
    \A k \in 1..3 :
       LET v == SpecValue(pixel, k)
       IN  /\ Trunc(v) <= led[k]
           /\ led[k] <= Trunc(v) + (IF v[1] % v[2] = 0 THEN 0 ELSE 1)

StoredAsSpecified ==
    IF call.kind = "write_solid"
    THEN \A q \in 0..(NumPixels - 1) : AsSpecified(Led(q), call.dot_colors[1])
    ELSE \A i \in 1..Len(RouteDest) :
            LastStore(i) => AsSpecified(Led(RouteDest[i]),
                                        call.dot_colors[RouteSrc[i] + 1])

\* C16 as stated: on every write path, a stored pixel has in channel k the
\* value clamp(gamma(gains[k] * input[order[k]])): the gain at position k is
\* applied to the channel that ends up at position k.
C16_GainAfterPermute == Wrote => StoredAsSpecified

\* The part of C16 that holds: the per-pixel path (write without the numpy
\* fast path, and write_solid) permutes, then applies the gains, the gamma
\* curve and the clamp.
C16_TuplePath == (Wrote /\ ~FastPath) => StoredAsSpecified

\* The channels an order names, first letter first: R is input channel 1,
\* G is 2, B is 3.
Named(order) ==
    LET R == 1
        G == 2
        B == 3
    IN  CASE order = "RGB" -> <<R, G, B>>
          [] order = "RBG" -> <<R, B, G>>
          [] order = "GRB" -> <<G, R, B>>
          [] order = "GBR" -> <<G, B, R>>
          [] order = "BRG" -> <<B, R, G>>
          [] order = "BGR" -> <<B, G, R>>

Permuted(pixel) ==
    [j \in 1..3 |-> pixel[Named(fpp.color_order)[j]]]

\* C17: with identity gains and no gamma, for each of the six channel orders
\* every stored pixel is the input pixel with channel j taken from the input
\* channel the order names at position j, its byte values unchanged.
C17_PermutedOnly ==
    (Wrote /\ fpp.channel_gains = Unity /\ fpp.gamma \in {0, 1})
       => IF call.kind = "write_solid"
          THEN \A q \in 0..(NumPixels - 1) : Led(q) = Permuted(call.dot_colors[1])
          ELSE \A i \in 1..Len(RouteDest) :
                  LastStore(i) =>
                     Led(RouteDest[i]) = Permuted(call.dot_colors[RouteSrc[i] + 1])

\* The frame [10,20,30, 40,50,60, 70,80,90, 100,110,120] written with order
\* GRB is stored as [20,10,30, 50,40,60, 80,70,90, 110,100,120].
C17_Witness ==
    /\ Wrote
    /\ call.kind = "write"
    /\ fpp.color_order = "GRB"
    /\ fpp.channel_gains = Unity
    /\ fpp.gamma = 0
    /\ call.dot_colors = Frame(<<10, 10>>, 4)
    /\ buffer = <<20, 10, 30, 50, 40, 60, 80, 70, 90, 110, 100, 120>>

IdentityCorrection ==
    /\ fpp.width > 0
    /\ fpp.gamma \in {0, 1}
    /\ fpp.channel_gains = Unity
    /\ fpp.color_order = "RGB"

\* C18: with gamma 1 or unset, gains (1, 1, 1) and order RGB the colour
\* correction is the identity: both correction routines return every value
\* 0..255 unchanged in every channel, and every pixel a call stores is the
\* input pixel.
C18_IdentityCorrection ==
    IdentityCorrection =>
       /\ \A v \in 0..255 :
             LET pixel == <<v, (v + 85) % 256, (v + 170) % 256>>
             IN  /\ apply_correction_tuple(pixel) = pixel
                 /\ apply_correction_numpy(<<pixel>>) = <<pixel>>
       /\ Wrote =>
             IF call.kind = "write_solid"
             THEN \A q \in 0..(NumPixels - 1) : Led(q) = call.dot_colors[1]
             ELSE \A i \in 1..Len(RouteDest) :
                     LastStore(i) =>
                        Led(RouteDest[i]) = call.dot_colors[RouteSrc[i] + 1]

\* A ramp written through the numpy path with gamma 1.0 (which converts,
\* clips and truncates): the pixel holding 255 is stored unchanged.
C18_Witness ==
    /\ IdentityCorrection
    /\ fpp.gamma = 1
    /\ Wrote
    /\ FastPath
    /\ call.dot_colors = Frame(<<0, 1>>, 100)
    /\ Led(85) = <<255, 0, 1>>

\* What _build_routing_table left behind: source pixels and LEDs, of the numpy
\* arrays and of routing_table.
TableSrc ==
    [i \in 1..Len(routing_table) |->
       routing_table[i].row * fpp.width + routing_table[i].col]

TableDest == [i \in 1..Len(routing_table) |-> routing_table[i].bytes[1] \div 3]

InRange(q) == \A i \in 1..Len(q) : 0 <= q[i] /\ q[i] < NumPixels

NoRepeat(q) == \A i, j \in 1..Len(q) : i # j => q[i] # q[j]

\* C19 as stated: every source index of the routing table is in [0, H*W),
\* every destination LED index is in [0, H*W), and no destination LED index
\* occurs twice.
C19_RoutingWellFormed ==
    fpp.width > 0 =>
       /\ InRange(fast_src) /\ InRange(TableSrc)
       /\ InRange(fast_dest) /\ InRange(TableDest)
       /\ NoRepeat(fast_dest) /\ NoRepeat(TableDest)

\* The part of C19 that holds: every source index is in [0, H*W) and occurs
\* once, and every destination LED index is in [0, 4500).
C19_SourcesInRange ==
    fpp.width > 0 =>
       /\ InRange(fast_src) /\ InRange(TableSrc)
       /\ NoRepeat(fast_src) /\ NoRepeat(TableSrc)
       /\ \A i \in 1..Len(fast_dest) : 0 <= fast_dest[i] /\ fast_dest[i] < 4500
       /\ \A i \in 1..Len(TableDest) : 0 <= TableDest[i] /\ TableDest[i] < 4500

\* C20 as stated: when the mapping file is missing or empty, or the table has
\* no entries, the routing is the linear identity of length H*W.
C20_LinearFallback ==
    (/\ fpp.width > 0
     /\ \/ ~CsvFile(fpp.csv, fpp.width, fpp.height).exists
        \/ CsvFile(fpp.csv, fpp.width, fpp.height).rows = <<>>
        \/ Len(routing_table) = 0)
       => fast_src = arange(NumPixels) /\ fast_dest = arange(NumPixels)

\* The part of C20 that holds: with numpy, a mapping that has entries but
\* routes no pixel of the grid gives the linear identity of length H*W.
C20_LinearWhenNothingRouted ==
    (/\ fpp.width > 0
     /\ fpp.has_numpy
     /\ DOMAIN mapping # {}
     /\ Len(routing_table) = 0)
       => fast_src = arange(NumPixels) /\ fast_dest = arange(NumPixels)

\* C21: if opening or mapping the shared-memory file fails, the constructor
\* goes on (to _build_routing_table) without a memory map, and afterwards
\* every call of write and write_solid returns 0.0, does not raise, and leaves
\* the buffer and the file as they were.
C21_DegradedWriter ==
    [][/\ (fpp_pc = "open" /\ ~fpp'.memory_map)
            => fpp_pc' = "build" /\ shm'.map = 0
       /\ (fpp_pc = "ready" /\ ~fpp.memory_map)
            => /\ call'.ret = "0.0"
               /\ ~call'.raised
               /\ buffer' = buffer
               /\ shm' = shm
               /\ fpp_pc' = "ready"]_vars

\* The file could not be created; a frame and then a solid colour were
\* written to the degraded writer.
C21_Witness ==
    /\ fpp_pc = "ready"
    /\ ~fpp.memory_map
    /\ shm = [file |-> -1, map |-> 0]
    /\ call.kind = "write_solid"
    /\ call.dot_colors = <<<<255, 255, 255>>>>
    /\ call.ret = "0.0"
    /\ buffer = [j \in 1..12 |-> 0]

\* C22: once _initialize_memory_map has succeeded, the shared-memory file, its
\* mapping and the buffer written to it are H*W*3 bytes long, whatever the
\* file was before and whatever calls of write and write_solid follow.
C22_SizeKept ==
    (fpp_pc \notin {"none", "open"} /\ fpp.memory_map)
       => /\ shm.file = fpp.height * fpp.width * 3
          /\ shm.map = fpp.height * fpp.width * 3
          /\ Len(buffer) = fpp.height * fpp.width * 3

\* A frame written through the memory map after construction.
C22_Witness ==
    /\ fpp_pc = "ready"
    /\ fpp.memory_map
    /\ shm = [file |-> 12, map |-> 12]
    /\ call.kind = "write"
    /\ call.done
    /\ buffer = <<10, 20, 30, 40, 50, 60, 70, 80, 90, 100, 110, 120>>

Count(log, events) == Cardinality({i \in 1..Len(log) : log[i] \in events})

Puts(log) == Count(log, {"put", "put_failed"})

\* Every PUT but the first comes directly after a sleep, and every sleep is
\* directly followed by a PUT or is the last event so far.
PausedBetween(log) ==
    \A i \in 1..Len(log) :
       /\ (log[i] \in {"put", "put_failed"} /\ i > 1) => log[i - 1] = "sleep"
       /\ (log[i] = "sleep" /\ i < Len(log)) => log[i + 1] \in {"put", "put_failed"}

OverlaySafe ==
    LET log == overlay.log
    IN  /\ Puts(log) <= 3
        /\ PausedBetween(log)
        /\ overlay.result = "True"
              <=> (Len(log) > 0 /\ log[Len(log)] = "confirmed")
        /\ Count(log, {"confirmed"}) <= 1
        /\ overlay.result = "False"
              => Puts(log) = 3 /\ log[Len(log)] \in {"put_failed", "readback_failed",
                                                     "mismatch"}
        /\ overlay.result = "none" => fpp_pc \in {"open", "put", "get", "pause"}
                                      \/ ~fpp.memory_map
        /\ Len(log) > 0 => fpp.memory_map /\ shm.map = fpp.width * fpp.height * 3

\* C28: overlay activation makes at most 3 PUT attempts with one sleep between
\* consecutive attempts, returns True at the first confirmed read-back and
\* False after the third attempt otherwise; it never raises, it terminates
\* whatever the HTTP outcomes are, and the writer keeps its memory map.
C28_OverlayActivation ==
    /\ []OverlaySafe
    /\ (fpp_pc = "put") ~> (fpp_pc = "ready" /\ fpp.memory_map
                             /\ overlay.result # "none")

\* Three attempts that all fail (PUT refused, state not 3, read-back error),
\* and a frame written afterwards.
C28_Witness ==
    /\ overlay.log = <<"put_failed", "sleep", "put", "mismatch", "sleep", "put",
                       "readback_failed">>
    /\ overlay.result = "False"
    /\ fpp_pc = "ready"
    /\ call.kind = "write"
    /\ call.done

\* ---- VideoPlayer.play: the range and the passes a call is to render
ClipFirst == Max(vp.start_frame, 0)

ClipLast == IF vp.end_frame = <<>> THEN vp.total ELSE Min(vp.end_frame[1], vp.total)

PassLen == ClipLast - ClipFirst

\* p passes over ClipFirst .. ClipLast - 1
Passes(p) == [i \in 1..(p * PassLen) |-> ClipFirst + ((i - 1) % PassLen)]

IsPrefix(q, r) == Len(q) <= Len(r) /\ \A i \in 1..Len(q) : q[i] = r[i]

\* What a call that is not stopped has rendered and returns, when it is to
\* make p passes.
RendersPasses(p) ==
    /\ IsPrefix(vp.rendered, Passes(p))
    /\ vp.pc = "returned" => vp.rendered = Passes(p) /\ vp.ret = p * PassLen

RendersNothing == vp.rendered = <<>> /\ (vp.pc = "returned" => vp.ret = 0)

\* C23 as stated: play, when not stopped, renders the frames start..end-1
\* (clamped) in increasing order in each pass, nothing when start >= end,
\* one pass when neither loop nor repeat is given and n passes for
\* repeat = n > 0, and returns passes * (end - start).
C23_PassesAsStated ==
    (vp.pc # "idle" /\ ~vp.told) =>
       IF ClipFirst >= ClipLast THEN RendersNothing
       ELSE /\ \A i \in 1..Len(vp.rendered) :
                  vp.rendered[i] = ClipFirst + ((i - 1) % PassLen)
            /\ (vp.repeat # <<>> /\ vp.repeat[1] > 0) => RendersPasses(vp.repeat[1])
            /\ (vp.repeat = <<>> /\ ~vp.loop) => RendersPasses(1)

\* The part of C23 that holds: the same without loop = True together with
\* repeat = n > 0; and such a call, unless stopped, returns.
C23_WithoutLoop ==
    /\ []((vp.loop /\ vp.repeat # <<>> /\ vp.repeat[1] > 0) \/ C23_PassesAsStated)
    /\ (vp.pc = "call" /\ ~infinite(vp.loop, vp.repeat))
          ~> (vp.pc = "returned" \/ vp.told)

StartsFrame == vp.pc # "render" /\ vp'.pc = "render"

\* C24 as stated: once stop() has been called on a player whose play thread
\* has been started, play starts rendering no further frame, whenever the
\* call of stop() arrives and whether or not the playback loops.
C24_StopHonoured == [][vp.told => ~StartsFrame]_vars

\* The part of C24 that holds: a stop() that arrives after play has executed
\* its first statement is honoured: no further frame is started, and play
\* returns.
C24_StopAfterBegin ==
    /\ [][(vp.pc \in {"while", "for", "render"} /\ vp.stop) => ~StartsFrame]_vars
    /\ (vp.pc \in {"while", "for", "render"} /\ vp.stop) ~> (vp.pc = "returned")

\* ---------------------------------------------------------------- C25
Signalled == proc.signal # "none"

\* C25: when SIGINT or SIGTERM arrives while the bridge loop runs, the loop
\* finishes its iteration and leaves, and the final summary is emitted before
\* the process exits with code 0.
C25_SignalThenSummary ==
    Signalled => proc.summary # <<>> /\ proc.status = "exited" /\ proc.code = 0

\* C25, what the program does: SIGINT ends the run with code 0 at the
\* statement it interrupts, SIGTERM ends the process with status 143; a
\* summary is there only if it was printed before the signal arrived.
C25_SignalEndsRun ==
    /\ proc.signal = "SIGINT" => proc.status = "exited" /\ proc.code = 0
    /\ proc.signal = "SIGTERM" => proc.status = "killed" /\ proc.code = 143
    /\ Signalled => pc = "exit"

C25_Witness ==
    /\ proc.signal = "SIGTERM"
    /\ proc.summary = <<>>
    /\ tot.packets + sec.packets > 0

\* ---------------------------------------------------------------- C26
Summarised == proc.summary # <<>>

Reported == proc.summary[1]

\* C26: the lifetime totals of the final summary equal the events of the
\* whole run: every increment of a per-second counter has been aggregated,
\* also those after the last roll-over.
C26_TotalsComplete ==
    Summarised =>
        /\ Reported.frames_in = FramesIn
        /\ Reported.frames_out = FramesOut
        /\ Reported.dropped = Drops
        /\ Reported.incomplete = sec.incomplete + tot.incomplete
        /\ Reported.packets = PacketsCounted

\* C26, what the program does: the summary reports the totals as of the last
\* roll-over; the events counted since then are missing from it.
C26_TotalsAsOfRollOver ==
    Summarised =>
        /\ Reported = tot
        /\ Reported.frames_in <= FramesIn
        /\ Reported.frames_out <= FramesOut
        /\ Reported.dropped <= Drops
        /\ Reported.incomplete <= sec.incomplete + tot.incomplete
        /\ Reported.packets <= PacketsCounted

C26_Witness ==
    /\ Summarised
    /\ Reported.packets = 0
    /\ sec.packets > 0
    /\ sec.frames_in > 0

\* ---------------------------------------------------------------- C27
Left == pc \in {"done", "summarised"}

Elapsed == now - run_start

NeverByTime == cfg.duration_sec = 0 => ~Left /\ (~Signalled => pc # "exit")

ExitsWhenElapsed ==
    pc = "end" /\ pc' \in {"recv", "done"} =>
        (pc' = "done" <=> cfg.duration_sec > 0
                          /\ Elapsed' >= cfg.duration_sec * OneSecond)

\* C27: with duration_sec = 0 the loop never exits because of elapsed time;
\* with duration_sec = d > 0 it exits at the end of the first iteration in
\* which the elapsed run time is >= d, and then emits the final summary.
C27_Duration ==
    /\ []NeverByTime
    /\ [][ExitsWhenElapsed]_vars
    /\ [](Left => Elapsed >= cfg.duration_sec * OneSecond)
    /\ (pc = "done") ~> (Summarised \/ Signalled)

C27_Witness ==
    /\ cfg.duration_sec = 1
    /\ pc = "summarised"
    /\ Summarised
    /\ ~Signalled
    /\ Elapsed >= OneSecond

\* ---------------------------------------------------------------- C29
Incomplete == sec.incomplete + tot.incomplete

\* A receive step created a FrameState while the table was at its cap.
NewKeyAtCap == next_id' # next_id /\ Len(frames_map) >= 12

\* Exactly one entry left the table, one of those with the least start_ts;
\* the others are still there, followed by nothing but the new FrameState.
OldestEvicted ==
    \E i \in 1..Len(frames_map) :
        /\ \A j \in 1..Len(frames_map) : frames_map[i].start_ts <= frames_map[j].start_ts
        /\ Ids(frames_map') \ {next_id} = Ids(frames_map) \ {frames_map[i].id}
        /\ \A j \in 1..Len(frames_map) :
              j # i => \E k \in 1..Len(frames_map') : frames_map'[k] = frames_map[j]

\* C29: a chunk for a key that is not in the table, arriving while the table
\* holds MAX_ACTIVE (12) entries, removes exactly one entry, the one with the
\* smallest start_time, and counts it once as incomplete; with 13 senders in
\* mid-frame at most 12 assemblies exist at once.
C29_EvictOldest ==
    /\ [][NewKeyAtCap => /\ OldestEvicted
                         /\ Incomplete' = Incomplete + 1
                         /\ Len(frames_map') <= 12]_vars
    /\ [](Cardinality(Ids(frames_map)) = Len(frames_map) /\ Len(frames_map) <= 12)

\* Thirteen senders are in mid-frame; time passed between the first and the
\* last head, and the first sender's frame was evicted, once.
C29_Witness ==
    /\ Len(frames_map) = 12
    /\ \A i \in 1..12 : frames_map[i].sender = i + 1 /\ frames_map[i].seq = 1
    /\ frames_map[1].start_ts < frames_map[12].start_ts
    /\ Incomplete = 1

\* ---------------------------------------------------------------- C30
\* The receive step took the datagram at the head of the socket's buffer.
TookHead == stream # <<>> /\ Took(stream[1])

HeadData == recvfrom(stream[1].data)

AssemblerUnchanged ==
    /\ frames_map' = frames_map
    /\ completed_frames' = completed_frames
    /\ Incomplete' = Incomplete

\* C30: a rejected datagram (bad magic, shorter than 10 bytes, length
\* mismatch, or offset + length > frame_size) leaves the assembler unchanged:
\* no FrameState is created for its key, none is evicted, and the incomplete
\* counter, the completed queue and all frame buffers are as before.
C30_RejectedLeavesState ==
    [][TookHead /\ ListedMalformed(HeadData) => AssemblerUnchanged]_vars

\* C30, what the program does: a datagram that fails a parse check leaves the
\* assembler unchanged; a chunk that runs past the end of the frame completes
\* nothing and writes into no buffer, but FrameStates that were in the table
\* may be gone and a new, empty one may be there.
C30_ParseRejectsLeaveState ==
    [][/\ TookHead /\ ~ParseOk(HeadData) => AssemblerUnchanged
       /\ TookHead /\ ParseOk(HeadData)
                   /\ hdr_off(HeadData) + hdr_ln(HeadData) > frame_size
            => /\ completed_frames' = completed_frames
               /\ \A k \in 1..Len(frames_map') :
                     \/ \E j \in 1..Len(frames_map) : frames_map'[k] = frames_map[j]
                     \/ frames_map'[k].chunks = 0 /\ frames_map'[k].id = next_id]_vars

\* The first datagram of the burst ran past the end of the frame: it was
\* counted and left an empty FrameState in the table.
C30_Witness ==
    /\ PacketsCounted = 1
    /\ Len(frames_map) = 1
    /\ frames_map[1].chunks = 0
    /\ frames_map[1].missing = frame_size
    /\ completed_frames = <<>>

\* ---------------------------------------------------------------- C31
\* The frames the senders of Traffic transmit: sender 1 a frame of ones and,
\* under the same sequence number, a frame of twos of which only the head
\* gets through; sender 2 a frame of twos under that sequence number too.
TransmittedBy(sender) ==
    IF sender = 1 THEN {Fill(3, 1), Fill(3, 2)} ELSE {Fill(3, 2)}

\* C31: every frame appended to the completed queue is byte for byte one
\* frame that one sender transmitted, also when a sender reuses a sequence
\* number while an earlier assembly with that key is still active, and when
\* two senders use the same sequence number.
C31_OneTransmittedFrame ==
    \A i \in DOMAIN enq_log : enq_log[i].buf \in TransmittedBy(enq_log[i].sender)

\* C31, what the program does: the bytes of a completed frame all come from
\* chunks of its own key, so frames of two senders are never combined; two
\* frames one sender transmits under the same sequence number are.
C31_OneKeyPerFrame ==
    \A i \in DOMAIN enq_log :
        /\ enq_log[i].sender = 2 => enq_log[i].buf = Fill(3, 2)
        /\ enq_log[i].sender = 1 =>
              /\ enq_log[i].buf[3] = 1
              /\ \A b \in 1..2 : enq_log[i].buf[b] \in {1, 2}

\* The head of the frame of twos and the tail of the frame of ones, both of
\* sender 1 and sequence number 7, completed one frame.
C31_Witness ==
    /\ Len(enq_log) = 1
    /\ enq_log[1].sender = 1
    /\ enq_log[1].buf = <<2, 2, 1>>

\* ---------------------------------------------------------------- C32
\* The receive step appended a FrameState to the completed queue.
Delivered == Len(enq_log') = Len(enq_log) + 1

LastDelivered == enq_log'[Len(enq_log')]

\* C32: a frame is delivered only if it completes within the timeout: no
\* FrameState is appended to the completed queue when more than
\* frame_timeout_ms has passed since its start_time.
C32_DeliveredWithinTimeout ==
    [][Delivered =>
          now' - LastDelivered.start_ts
             <= cfg.frame_timeout_ms * (OneSecond \div 1000)]_vars

\* C32, what the program does: the timeout is applied by the expiry scan
\* only.  When the scan has run no active frame is older than the timeout,
\* and a frame it removed is never delivered; a frame that completes in the
\* receive batch before the scan is delivered whatever its age.
C32_TimeoutAtScanOnly ==
    /\ [](pc = "pace" => \A i \in DOMAIN frames_map : ~TooOld(frames_map[i]))
    /\ [][ScanRan => \A i \in DOMAIN frames_map :
                        TooOld(frames_map[i]) =>
                           \A j \in DOMAIN enq_log' : enq_log'[j].id # frames_map[i].id]_vars
    /\ [][\A i \in DOMAIN frames_map :
             (\A k \in DOMAIN frames_map' : frames_map'[k].id # frames_map[i].id)
                => \/ ScanRan /\ TooOld(frames_map[i])
                   \/ Delivered /\ LastDelivered.id = frames_map[i].id
                   \/ NewKeyAtCap]_vars

\* A frame whose head arrived more than the timeout before its tail was
\* delivered and went through the next scan to the writer.
C32_Witness ==
    /\ Len(enq_log) = 1
    /\ enq_log[1].chunks = 2
    /\ now - enq_log[1].start_ts = TimeoutStep
    /\ IncompleteCount = 0
    /\ frames_written = 1
    /\ pc = "end"

\* ---------------------------------------------------------------- C33
\* C33: in every iteration of the main loop the inner receive loop ends
\* after at most batch_limit receive attempts, whatever recvfrom returns or
\* raises, so that the expiry scan and the writer step run in that iteration.
C33_AttemptsBounded == attempts.total <= cfg.batch_limit

\* C33, what the program does: the batch limit bounds the calls of recvfrom
\* that did not raise a socket error; the inner loop ends with a would-block
\* or with the limit reached, and the expiry scan, the pacing and the writer
\* step follow in that iteration.
C33_ReturnsBounded ==
    /\ [](/\ packets_this_loop <= cfg.batch_limit
          /\ attempts.total - attempts.failed <= cfg.batch_limit)
    /\ [][pc = "recv" /\ pc' # "recv" =>
             /\ pc' = "expire"
             /\ \/ packets_this_loop = cfg.batch_limit
                \/ attempts' # attempts /\ packets_this_loop' = packets_this_loop]_vars
    /\ [][/\ pc = "expire" => pc' = "pace"
          /\ pc = "pace" => pc' \in {"pace", "write"}
          /\ pc = "write" => pc' = "end"]_vars

\* An iteration whose receive loop made more calls than batch_limit, two of
\* them failed with a socket error, and whose writer step wrote a frame.
C33_Witness ==
    /\ pc = "end"
    /\ wrote
    /\ packets_this_loop = cfg.batch_limit
    /\ attempts.failed = 2
    /\ attempts.total = cfg.batch_limit + 2

\* ---------------------------------------------------------------- C34
\* A step of write on a writer that has its memory map.
WriteCalled == call'.kind = "write" /\ fpp.memory_map /\ fpp_pc = "ready"

\* The routing the call goes by, and the pixel it has for entry i.
ByFastPath == fpp.has_numpy /\ call'.ndarray /\ fast_dest # <<>>

Dests == IF ByFastPath THEN fast_dest ELSE TableDest

Sources == IF ByFastPath THEN fast_src ELSE TableSrc

CorrectedPixel(pixel) ==
    IF ByFastPath THEN apply_correction_numpy(<<pixel>>)[1]
    ELSE apply_correction_tuple(pixel)

\* After the step, LED q holds pixel p of the frame, corrected.
LedHolds(q, p) ==
    LET c == CorrectedPixel(call'.dot_colors[p + 1])
    IN  /\ buffer'[3 * q + 1] = c[1]
        /\ buffer'[3 * q + 2] = c[2]
        /\ buffer'[3 * q + 3] = c[3]

LedAfter(q) == <<buffer'[3 * q + 1], buffer'[3 * q + 2], buffer'[3 * q + 3]>>

Untouched ==
    \A q \in (0..(NumPixels - 1)) \ Range(Dests) : LedAfter(q) = Led(q)

\* C34: after write(frame) on a working writer, for every routing entry i
\* the three bytes of LED dst_indices[i] equal the corrected pixel
\* src_indices[i] of the frame, and the bytes of every LED that is not a
\* destination are as they were before the call.
C34_ScatterExact ==
    [][WriteCalled =>
         LET d == Dests
             s == Sources
         IN  /\ \A i \in 1..Len(d) : d[i] < NumPixels /\ LedHolds(d[i], s[i])
             /\ Untouched]_vars

\* C34, what the program does: the LEDs that are no destination are never
\* changed; when write returns, an LED holds the pixel of the last routing
\* entry that names it; when an entry lies outside the buffer write raises
\* and LEDs named by earlier entries may or may not have been stored.
C34_LastEntryWins ==
    [][WriteCalled =>
         LET d == Dests
             s == Sources
         IN  /\ Untouched
             /\ call'.done =>
                   \A i \in 1..Len(d) :
                      /\ d[i] < NumPixels
                      /\ \/ LedHolds(d[i], s[i])
                         \/ \E h \in (i + 1)..Len(d) : d[h] = d[i]
             /\ ~call'.done =>
                   /\ call'.raised
                   /\ \E i \in 1..Len(d) : d[i] >= NumPixels]_vars

\* A frame was written over a solid colour: an LED the routing does not
\* name still holds the solid colour, a routed LED holds its pixel.
C34_Witness ==
    /\ Wrote
    /\ call.kind = "write"
    /\ Len(RouteDest) > 0
    /\ \E q \in 0..(NumPixels - 1) :
          q \notin Range(RouteDest) /\ Led(q) = <<201, 3, 127>>
    /\ \E i \in 1..Len(RouteDest) : Led(RouteDest[i]) # <<201, 3, 127>>

\* ---------------------------------------------------------------- C35
\* The routing table has, for the logical cell (vr, vc), exactly the entry
\* to the LED the mapping m has at <<pr, vc>>, if that LED lies below
\* limit; else none.
RoutedBy(m, vr, vc, pr, limit) ==
    LET entries == {i \in 1..Len(routing_table) :
                       routing_table[i].row = vr /\ routing_table[i].col = vc}
    IN  IF <<pr, vc>> \in DOMAIN m /\ 0 <= m[<<pr, vc>>] /\ m[<<pr, vc>>] < limit
        THEN /\ Cardinality(entries) = 1
             /\ \A i \in entries : routing_table[i].bytes = <<3 * m[<<pr, vc>>]>>
        ELSE entries = {}

\* vr*2 in an even column, vr*2 + 1 in an odd one, clamped to 2H - 1
StaggeredRow(vr, vc) == Min(2 * vr + (vc % 2), 2 * fpp.height - 1)

\* C35: for every logical cell (vr, vc) the routing table looks up the LED
\* at physical row vr*2 (vc even) or vr*2+1 (vc odd), clamped to 2H-1, in
\* column vc, and contains the entry exactly when the CSV has an LED index
\* there that lies in [0, total_leds); two different logical cells are never
\* routed through the same physical cell.
C35_StaggerLookup ==
    (fpp.width > 0 /\ CsvFile(fpp.csv, fpp.width, fpp.height).rows # <<>>) =>
       LET m == mapping
       IN  /\ \A vr \in 0..(fpp.height - 1) : \A vc \in 0..(fpp.width - 1) :
                 RoutedBy(m, vr, vc, StaggeredRow(vr, vc), NumPixels)
           /\ \A vc \in 0..(fpp.width - 1) : \A vr, vs \in 0..(fpp.height - 1) :
                 vr # vs => physical_row(vr, vc) # physical_row(vs, vc)

\* C35, what the program does: the physical row is vr*2 or vr*2+1, and 97
\* when that is more than 98, whatever H is; an entry is there exactly when
\* the mapping has an LED index below 4500 at that place.  Up to a height of
\* 49 no two logical cells share a physical cell.
C35_LookupAsBuilt ==
    (fpp.width > 0 /\ DOMAIN mapping # {}) =>
       LET m == mapping
       IN  /\ \A vr \in 0..(fpp.height - 1) : \A vc \in 0..(fpp.width - 1) :
                 RoutedBy(m, vr, vc,
                          IF 2 * vr + (vc % 2) > 98 THEN 97 ELSE 2 * vr + (vc % 2),
                          4500)
           /\ \A vc \in 0..(fpp.width - 1) : \A vr, vs \in 0..(fpp.height - 1) :
                 (vr # vs /\ vr < 49 /\ vs < 49)
                    => physical_row(vr, vc) # physical_row(vs, vc)

\* The wall of 50 rows with the staggered CSV of 99 rows: the logical cells
\* (48, 1) and (49, 1) are both routed to the LED at physical row 97.
C35_Witness ==
    /\ fpp.height = 50
    /\ fpp.csv = "stagger"
    /\ Len(routing_table) = 100
    /\ routing_table[98].row = 48 /\ routing_table[98].col = 1
    /\ routing_table[100].row = 49 /\ routing_table[100].col = 1
    /\ routing_table[98].bytes = routing_table[100].bytes
    /\ Wrote

\* ---------------------------------------------------------------- C36
\* A frame was written by a writer that has both paths.
WroteFrame == Wrote /\ call.kind = "write" /\ fpp.has_numpy

\* Both correction routines give the same bytes for every pixel of the frame.
SameCorrection ==
    \A p \in 1..Len(call.dot_colors) :
       apply_correction_numpy(<<call.dot_colors[p]>>)[1]
          = apply_correction_tuple(call.dot_colors[p])

\* Both paths scatter the same pixels to the same LEDs.
SameRouting == fast_src = TableSrc /\ fast_dest = TableDest

\* C36: for every frame and every correction config (order, gains, gamma),
\* write produces the same output buffer whether the frame is a numpy array
\* (vectorised path) or a nested list of tuples (per-pixel path):
\* _apply_correction_numpy and _apply_correction_tuple compute the same
\* value for every pixel.
C36_PathsAgree == WroteFrame => SameCorrection

\* C36, what the program does: the two routines agree when the gains are all
\* 1 and gamma is None or 1, for every channel order; the two paths go by the
\* same routing when the routing table has entries.
C36_AgreeWithoutGains ==
    WroteFrame =>
       /\ (fpp.channel_gains = Unity /\ ~UsesGamma) => SameCorrection
       /\ Len(routing_table) > 0 => SameRouting

\* A frame of distinct channel values was written through the numpy path
\* with the order GRB, unit gains and gamma 1.
C36_Witness ==
    /\ WroteFrame
    /\ call.ndarray
    /\ fpp.color_order = "GRB"
    /\ fpp.gamma = 1
    /\ fpp.channel_gains = Unity
    /\ Len(routing_table) > 0
    /\ call.dot_colors[1] = <<10, 20, 30>>
    /\ Led(RouteDest[1]) = <<20, 10, 30>>

\* ---------------------------------------------------------------- C37
\* The state resource of the overlay model named name.
StateOf(name) == <<"http://localhost/api/overlays/model/">> \o name \o <<"/state">>

\* The overlay model whose shared-memory file the writer opened.
ModelOfFile == SubSeq(fpp.mapping_file, 2, Len(fpp.mapping_file))

Requests(method) == {i \in 1..Len(overlay.sent) : overlay.sent[i][1] = method}

\* C37: the overlay activation request sent at writer construction addresses
\* the overlay model whose shared-memory file the writer opened: for a bridge
\* started with model name M the PUT goes to /api/overlays/model/M/state, and
\* the verifying GET reads the same resource.
C37_OverlayOfModel ==
    \A i \in 1..Len(overlay.sent) :
       overlay.sent[i][2] \in {StateOf(fpp.model), StateOf(ModelOfFile)}

\* C37, what the program does: every PUT goes to the state of the model
\* Light_Wall and every GET reads the model Light_Wall itself, whatever the
\* model of the bridge is; the file opened is the one of the bridge's model.
C37_AlwaysLightWall ==
    /\ \A i \in Requests("PUT") : overlay.sent[i][2] = StateOf(<<"Light", "_", "Wall">>)
    /\ \A i \in Requests("GET") :
          overlay.sent[i][2] = <<"http://localhost/api/overlays/model/", "Light", "_", "Wall">>
    /\ Requests("PUT") \cup Requests("GET") = 1..Len(overlay.sent)
    /\ fpp_pc # "none" => ModelOfFile = replace_spaces(fpp.model)

\* A writer for the model Tree was constructed: its file is the one of Tree,
\* the overlay state was put and read back, and confirmed.
C37_Witness ==
    /\ fpp_pc = "ready"
    /\ fpp.model = <<"Tree">>
    /\ fpp.mapping_file = <<"/dev/shm/FPP-Model-Data-", "Tree">>
    /\ fpp.memory_map
    /\ overlay.result = "True"
    /\ Len(overlay.sent) = 2

\* ---------------------------------------------------------------- C38
\* play is in its loop: the range is not empty and it has not returned.
Playing == vp.pc \in {"while", "for", "render"}

RepeatGiven == vp.repeat # <<>>

\* C38: the loop argument is ignored whenever repeat is provided: with
\* loop=True and repeat = n > 0 playback makes exactly n passes and then
\* terminates; playback is infinite only for repeat = 0, or for loop=True
\* with repeat not provided.
C38_LoopIgnoredWithRepeat ==
    /\ Playing => (vp.infinite <=> (vp.repeat = <<0>> \/ (vp.loop /\ ~RepeatGiven)))
    /\ (vp.pc # "idle" /\ ~vp.told /\ ClipFirst < ClipLast
          /\ vp.loop /\ RepeatGiven /\ vp.repeat[1] > 0)
         => RendersPasses(vp.repeat[1])

\* C38, what the program does: playback is infinite whenever loop is True,
\* whatever repeat is, and for repeat = 0; an infinite playback returns only
\* when it is stopped, every other call returns.
C38_LoopWins ==
    /\ [](Playing => (vp.infinite <=> (vp.loop \/ vp.repeat = <<0>>)))
    /\ []((Playing /\ vp.infinite /\ ~vp.stop) => vp.pc # "returned")
    /\ [][(Playing /\ vp.infinite /\ vp'.pc = "returned") => vp.stop]_vars
    /\ (Playing /\ ~vp.infinite) ~> (vp.pc = "returned")

\* loop=True with repeat=1 on a clip of two frames: a third pass is under
\* way, nobody has called stop.
C38_Witness ==
    /\ vp.pc = "for"
    /\ vp.loop
    /\ vp.repeat = <<1>>
    /\ vp.total = 2 /\ vp.start_frame = 0 /\ vp.end_frame = <<>>
    /\ ~vp.told
    /\ vp.rendered = <<0, 1, 0, 1, 0>>


\* ---------------------------------------------------------------- C39
\* A thread waits for the registry lock while the thread that holds the
\* lock is itself waiting for it: the lock is never released again, so the
\* wait never ends.
SelfWait(t) == Me(t).pc = "acquire" /\ registry._lock = t

BlockedForever(t) ==
    /\ Me(t).pc = "acquire"
    /\ registry._lock # 0
    /\ SelfWait(registry._lock)

AutoRegistering(t) ==
    /\ Len(Me(t).stack) = 2
    /\ Me(t).stack[1] \in {"handle_input", "set_input_handler"}
    /\ Me(t).stack[2] = "register"
    /\ ~Registered(Me(t).player_id)

Enqueues(t) ==
    (Me(t).pc = "held" /\ Top(t) = "handle_input" /\ registry'.thr[t].pc = "listeners")
        => /\ Registered(Me(t).player_id)
           /\ registry'._players[Me(t).player_id].backlog =
                  Append(registry._players[Me(t).player_id].backlog, Me(t).arg)
           /\ registry'._lock = 0

\* C39, as stated: handle_input for a player_id that is not registered
\* registers it, enqueues the payload and returns, and no sequence of calls
\* of handle_input, set_input_handler, register, next_input and
\* active_players from the network and game threads leaves a thread waiting
\* forever for the registry lock.
C39_NoThreadBlockedForever == \A t \in Threads : ~BlockedForever(t)

\* C39, what holds: a thread is left waiting forever only after handle_input
\* or set_input_handler, holding the lock, called register for a player_id
\* that is not registered; a call of handle_input that gets past the lookup
\* appends its payload to the backlog of a registered player and releases
\* the lock; and every call either returns or is caught behind such a wait.
C39_BlockedOnlyByAutoRegister ==
    /\ [](\A t \in Threads : BlockedForever(t) => AutoRegistering(registry._lock))
    /\ [][\A t \in Threads : Enqueues(t)]_vars
    /\ \A t \in Threads :
          (Me(t).pc # "idle") ~> (Me(t).pc = "idle" \/ \E u \in Threads : SelfWait(u))

\* The network thread called handle_input for a player_id that is not
\* registered and waits for the lock it holds itself; the game thread waits
\* behind it.
C39_Witness ==
    /\ SelfWait(1)
    /\ Me(1).stack = <<"handle_input", "register">>
    /\ ~Registered(Me(1).player_id)
    /\ BlockedForever(2)
    /\ Len(Me(2).stack) = 1

====
